---- MODULE Spec2Model ----
(***************************************************************************)
(* A model of the plugin lifecycle of ArtReactor-Core:                     *)
(* PluginManager.discover_plugins, load_plugins, _load_plugin,             *)
(* _scan_for_tools, _find_plugin_class and shutdown_all                    *)
(* (src/artreactor/core/managers/plugin_manager.py).                       *)
(*                                                                         *)
(* The plugin directories and the central configuration file are fixed     *)
(* when the manager is constructed (Init draws them); what a plugin's      *)
(* directory holds and what its hooks do is read from the environment at   *)
(* the moment the loader looks (the inputs of the actions).                *)
(***************************************************************************)
EXTENDS Integers, Sequences, FiniteSets, TLC

\* Number of plugin.toml files under the plugin directories.
MaxManifests == 2

\* Number of listeners registered for the event at one time.
MaxListeners == 2

\* Number of tools registered with the agent manager.
MaxTools == 2

-----------------------------------------------------------------------------
(* models/plugin.py *)

PRE_INIT == "pre-init"
DEFAULT == "default"
AFTER_INIT == "after-init"
PluginTiming == {PRE_INIT, DEFAULT, AFTER_INIT}

UI == "ui"
CORE == "core"
\* core stands for every type other than ui: the loader only ever asks
\* whether manifest.type == PluginType.UI.
PluginType == {UI, CORE}

Names == {"foo", "bar"}
Priorities == {0, 10}

\* A plugin.toml as _load_manifest parses it.
ManifestFile == [name : Names, type : PluginType, timing : PluginTiming,
                 priority : Priorities]

\* A PluginManifest as discover_plugins stamps it: path is the directory
\* holding the plugin.toml (here: its position in the directory scan).
PluginManifest(f, p) ==
    [name |-> f.name, type |-> f.type, timing |-> f.timing,
     priority |-> f.priority, path |-> p]

-----------------------------------------------------------------------------
(* The central configuration file *)

\* One [plugins.<name>] table.  A key that is absent is the empty set.
ConfigEntry == [enabled : BOOLEAN, priority : {{}} \cup {{p} : p \in Priorities},
                timing : {{}} \cup {{t} : t \in PluginTiming \cup {"bogus"}}]

\* plugins_config.get(manifest.name, {})
EmptyEntry == [enabled |-> TRUE, priority |-> {}, timing |-> {}]

Only(S) == CHOOSE x \in S : TRUE

\* The tables a configuration file of the model may hold for one plugin.
ConfigEntries ==
    { EmptyEntry,
      [enabled |-> FALSE, priority |-> {}, timing |-> {}],
      [enabled |-> TRUE, priority |-> {10}, timing |-> {AFTER_INIT}],
      [enabled |-> TRUE, priority |-> {10}, timing |-> {"bogus"}] }

NoConfig == [exists |-> FALSE, plugins |-> [n \in Names |-> EmptyEntry]]

Configs == {NoConfig} \cup
           { [exists |-> TRUE, plugins |-> pc] : pc \in [Names -> ConfigEntries] }

-----------------------------------------------------------------------------
(* discover_plugins *)

\* The scan of the plugin directories: one manifest per plugin.toml.
ScanManifests(d) == [i \in 1..Len(d) |-> PluginManifest(d[i], i)]

\* The loop over the manifests under the configuration.  ms is the list
\* `manifests`, whose elements the loop assigns to in place; final is
\* `final_manifests`.  PluginTiming("bogus") raises ValueError, and the
\* handler returns `manifests`.
RECURSIVE ApplyConfig(_, _, _, _)
ApplyConfig(ms, plugins_config, i, final) ==
    IF i > Len(ms) THEN final
    ELSE LET manifest == ms[i]
             p_config == plugins_config[manifest.name]
         IN  IF p_config.enabled = FALSE
             THEN ApplyConfig(ms, plugins_config, i + 1, final)
             ELSE LET m1 == IF p_config.priority # {}
                            THEN [manifest EXCEPT !.priority = Only(p_config.priority)]
                            ELSE manifest
                  IN  IF p_config.timing # {} /\ Only(p_config.timing) \notin PluginTiming
                      THEN [ms EXCEPT ![i] = m1]
                      ELSE LET m2 == IF p_config.timing # {}
                                     THEN [m1 EXCEPT !.timing = Only(p_config.timing)]
                                     ELSE m1
                           IN  ApplyConfig([ms EXCEPT ![i] = m2], plugins_config,
                                           i + 1, Append(final, m2))

discover_plugins(d, cfg) ==
    LET manifests == ScanManifests(d)
    IN  IF cfg.exists THEN ApplyConfig(manifests, cfg.plugins, 1, <<>>)
        ELSE manifests

-----------------------------------------------------------------------------
(* load_plugins: phase filter, priority order, the already-loaded check *)

\* A loader that forgets the phase filter.
FilterByTiming_none(discovered, timing) == discovered

\* to_load = [m for m in discovered if m.timing == timing]
FilterByTiming(discovered, timing) ==
    SelectSeq(discovered, LAMBDA m : m.timing = timing)

\* list.sort(key=priority, reverse=True): descending and stable, an element
\* goes behind every element whose priority is not lower.
RECURSIVE InsertByPriority(_, _)
InsertByPriority(s, m) ==
    IF s = <<>> THEN <<m>>
    ELSE IF Head(s).priority >= m.priority
         THEN <<Head(s)>> \o InsertByPriority(Tail(s), m)
         ELSE <<m>> \o s

\* A loader that keeps the discovery order.
SortByPriority_unsorted(s) == s


RECURSIVE SortByPriority(_)
SortByPriority(s) ==
    IF s = <<>> THEN <<>>
    ELSE InsertByPriority(SortByPriority(SubSeq(s, 1, Len(s) - 1)), s[Len(s)])

\* A loader that forgets the already-loaded check.
AlreadyLoaded_never(manifest, registry) == FALSE

\* if manifest.name in self.plugins: continue
AlreadyLoaded(manifest, registry) == manifest.name \in DOMAIN registry

-----------------------------------------------------------------------------
(* _load_plugin: what the loader finds in the plugin's directory *)

NoError == "none"
FileNotFoundError == "FileNotFoundError"
ModuleExecError == "ModuleExecError"
NoPluginClassError == "NoPluginClassError"
InstantiateError == "InstantiateError"
InitializeError == "InitializeError"
DuplicateToolError == "DuplicateToolError"
ShutdownError == "ShutdownError"

\* A handler that lets an initialize failure through.
LoadCaught_init_escapes(error) == error # InitializeError

\* A shutdown loop without the handler.
ShutdownCaught_never(error) == FALSE

\* `except Exception` around _load_plugin in load_plugins, and around
\* plugin.shutdown() in shutdown_all: every error above is an Exception.
LoadCaught(error) == TRUE
ShutdownCaught(error) == TRUE

\* The classes inspect.getmembers finds in a plugin module, in name order.
\* plugin: a subclass of Plugin; abstract: it cannot be instantiated.
BaseClasses == {"Plugin", "CorePlugin", "RouterPlugin", "AppPlugin", "UiPlugin"}
CorePluginClass == [name |-> "CorePlugin", plugin |-> TRUE, abstract |-> TRUE]
LoggingPluginClass == [name |-> "LoggingPlugin", plugin |-> TRUE, abstract |-> TRUE]
HelperClass == [name |-> "Helper", plugin |-> FALSE, abstract |-> FALSE]
MyPluginClass == [name |-> "MyPlugin", plugin |-> TRUE, abstract |-> FALSE]
OtherPluginClass == [name |-> "OtherPlugin", plugin |-> TRUE, abstract |-> FALSE]
UiPluginClass == [name |-> "UiPlugin", plugin |-> TRUE, abstract |-> FALSE]
NoClass == [name |-> "None", plugin |-> FALSE, abstract |-> FALSE]

ModuleContents ==
    { <<>>,
      <<CorePluginClass, HelperClass>>,
      <<CorePluginClass, MyPluginClass>>,
      <<LoggingPluginClass, MyPluginClass>>,
      <<MyPluginClass, OtherPluginClass>> }

\* What a plugin directory holds when _load_plugin looks at it: whether the
\* manifest names an entry_point, whether that file and __init__.py exist,
\* whether the module executes, and the classes it defines.  A directory
\* without a module is listed once (exec_ok and classes say nothing there),
\* and so is a module that fails to execute.
PluginDirs ==
    { d \in [entry_point : BOOLEAN, entry_exists : BOOLEAN, init_exists : BOOLEAN,
             exec_ok : BOOLEAN, classes : ModuleContents] :
        /\ d.entry_exists => d.entry_point
        /\ ~d.entry_exists /\ ~d.init_exists => d.exec_ok /\ d.classes = <<>>
        /\ ~d.exec_ok => d.classes = <<>> }

\* The tool names (_tool_name or the attribute name) of the @tool methods of
\* an instance, in the order inspect.getmembers yields them.  The built-in
\* UiPlugin has no tool methods and its initialize is empty.
ToolMethods(class) ==
    IF class = "UiPlugin" THEN { <<>> }
    ELSE { <<"run", "stop">>, <<"run", "run">> }

InitializeOutcomes(class) == IF class = "UiPlugin" THEN {TRUE} ELSE BOOLEAN

\* entry_file if it exists, else __init__.py if it exists, else None
TargetFile(dir) ==
    IF dir.entry_point /\ dir.entry_exists THEN "entry"
    ELSE IF dir.init_exists THEN "init"
    ELSE "none"

RECURSIVE _find_plugin_class(_)
_find_plugin_class(classes) ==
    IF classes = <<>> THEN NoClass
    ELSE IF Head(classes).plugin /\ Head(classes).name \notin BaseClasses
         THEN Head(classes)
         ELSE _find_plugin_class(Tail(classes))

\* A loader that falls back to UiPlugin whatever the manifest's type.
FallbackClass_any_type(manifest) == UiPluginClass

\* plugin_class is None: UiPlugin for a ui manifest, ValueError otherwise.
FallbackClass(manifest) == IF manifest.type = UI THEN UiPluginClass ELSE NoClass

\* _load_plugin up to `await plugin.initialize()`: the error it raises, or
\* the class it instantiated.
ResolvePlugin(manifest, dir) ==
    LET target == TargetFile(dir)
        found == IF target = "none" THEN NoClass ELSE _find_plugin_class(dir.classes)
        class == IF found = NoClass THEN FallbackClass(manifest) ELSE found
    IN  IF target = "none" /\ manifest.type # UI
        THEN [error |-> FileNotFoundError, class |-> NoClass]
        ELSE IF target # "none" /\ ~dir.exec_ok
        THEN [error |-> ModuleExecError, class |-> NoClass]
        ELSE IF class = NoClass
        THEN [error |-> NoPluginClassError, class |-> NoClass]
        ELSE IF class.abstract
        THEN [error |-> InstantiateError, class |-> class]
        ELSE [error |-> NoError, class |-> class]

\* _scan_for_tools: appends to plugin.tools, raises on a name already there.
RECURSIVE _scan_for_tools(_, _)
_scan_for_tools(tools, methods) ==
    IF methods = <<>> THEN [error |-> NoError, tools |-> tools]
    ELSE IF \E i \in 1..Len(tools) : tools[i] = Head(methods)
         THEN [error |-> DuplicateToolError, tools |-> tools]
         ELSE _scan_for_tools(Append(tools, Head(methods)), Tail(methods))

\* What the loader found in the directory of the manifest it handled last.
NoCodeUnit == "none"
ExecFailed == "exec_failed"
NoPluginClass == "no_class"
HasPluginClass == "class"
ManyPluginClasses == "classes"
NotLooked == "not_looked"

\* The members of the module that pass the test of _find_plugin_class.
EligibleClasses(classes) ==
    { i \in 1..Len(classes) :
        classes[i].plugin /\ classes[i].name \notin BaseClasses }

CodeUnit(dir) ==
    IF ~(dir.entry_point /\ dir.entry_exists) /\ ~dir.init_exists THEN NoCodeUnit
    ELSE IF ~dir.exec_ok THEN ExecFailed
    ELSE IF \A i \in 1..Len(dir.classes) :
               ~dir.classes[i].plugin \/ dir.classes[i].name \in BaseClasses
         THEN NoPluginClass
         ELSE IF Cardinality(EligibleClasses(dir.classes)) = 1
         THEN HasPluginClass
         ELSE ManyPluginClasses

\* A loader that registers before it scans for tools.
Registers_before_scan(init_ok, scan_error) == init_ok

\* The try block of _load_plugin runs initialize, the tool scan and the
\* registration in this order: the registration is reached when neither
\* of the two before it raised.
Registers(init_ok, scan_error) == init_ok /\ scan_error = NoError

EmptyMap == [n \in {} |-> 0]
NoInstance == [class |-> "None", path |-> 0, tools |-> <<>>]

-----------------------------------------------------------------------------
(* core/managers/database_manager.py: the key-value store *)

Collections == {"c1", "c2"}
Keys == {"k1", "k2"}
Cells == Collections \X Keys

\* Python values, as far as json tells them apart.  A scalar is a str, an
\* int, a bool, None, or an object json cannot serialize (a set, bytes):
\* s holds its repr.  A value is a scalar, a list or a tuple of scalars.
PyStr(s) == [t |-> "str", s |-> s]
PyInt(s) == [t |-> "int", s |-> s]
PyTrue == [t |-> "bool", s |-> "True"]
PyFalse == [t |-> "bool", s |-> "False"]
PyNone == [t |-> "none", s |-> "None"]
PyObject == [t |-> "object", s |-> "set()"]
Scalar(x) == [t |-> x.t, s |-> x.s, items |-> <<>>]
PyList(items) == [t |-> "list", s |-> "", items |-> items]
PyTuple(items) == [t |-> "tuple", s |-> "", items |-> items]

\* A dict, in insertion order: a sequence of entries k: v.
Entry(k, v) == [k |-> k, v |-> v]
EmptyDict == <<>>

\* JSON text, by its syntax: an object is its members in order, a value is
\* a string, a number, true, false, null or an array of such.  A text that
\* json.loads rejects has valid = FALSE.
JsonText(members) == [valid |-> TRUE, members |-> members]
CorruptedText == [valid |-> FALSE, members |-> <<>>]
Member(name, value) == [name |-> name, value |-> value]

\* json.dumps accepts str, int, bool, None, list and tuple
JsonSerializable(x) == x.t \in {"str", "int", "bool", "none"}

\* json.dumps of a scalar
DumpScalar(x) ==
    IF x.t = "str" THEN [j |-> "string", s |-> x.s]
    ELSE IF x.t = "int" THEN [j |-> "number", s |-> x.s]
    ELSE IF x.t = "bool" THEN [j |-> IF x.s = "True" THEN "true" ELSE "false", s |-> ""]
    ELSE [j |-> "null", s |-> ""]

\* json.dumps of a value: a list and a tuple both become an array
DumpValue(v) ==
    IF v.t \in {"list", "tuple"}
    THEN [j |-> "array", s |-> "",
          items |-> [i \in 1..Len(v.items) |-> DumpScalar(v.items[i])]]
    ELSE [j |-> DumpScalar(v).j, s |-> DumpScalar(v).s, items |-> <<>>]

\* json.dumps of a dict key: a str stays, an int, a bool and None become
\* the string of their JSON form
DumpKey(k) ==
    IF k.t \in {"str", "int"} THEN k.s
    ELSE IF k.t = "bool" THEN (IF k.s = "True" THEN "true" ELSE "false")
    ELSE "null"

ValueSerializable(v) ==
    IF v.t \in {"list", "tuple"}
    THEN \A i \in 1..Len(v.items) : JsonSerializable(v.items[i])
    ELSE JsonSerializable(v)

\* json.dumps(data): TypeError on a key or a value it cannot serialize
json_dumps(data) ==
    IF \A i \in 1..Len(data) :
         JsonSerializable(data[i].k) /\ ValueSerializable(data[i].v)
    THEN [raised |-> FALSE,
          text |-> JsonText([i \in 1..Len(data) |->
                               Member(DumpKey(data[i].k), DumpValue(data[i].v))])]
    ELSE [raised |-> TRUE, text |-> CorruptedText]

LoadScalar(x) ==
    IF x.j = "string" THEN PyStr(x.s)
    ELSE IF x.j = "number" THEN PyInt(x.s)
    ELSE IF x.j = "true" THEN PyTrue
    ELSE IF x.j = "false" THEN PyFalse
    ELSE PyNone

\* an array is read as a list
LoadValue(x) ==
    IF x.j = "array"
    THEN PyList([i \in 1..Len(x.items) |-> LoadScalar(x.items[i])])
    ELSE Scalar(LoadScalar(x))

\* the dict of an object: every name is a str; of two members of one name
\* the later gives the value
RECURSIVE LoadMembers(_, _)
LoadMembers(members, dict) ==
    IF members = <<>> THEN dict
    ELSE LET m == Head(members)
             at == {i \in 1..Len(dict) : dict[i].k = PyStr(m.name)}
         IN  IF at = {}
             THEN LoadMembers(Tail(members),
                              Append(dict, Entry(PyStr(m.name), LoadValue(m.value))))
             ELSE LoadMembers(Tail(members),
                              [i \in 1..Len(dict) |->
                                 IF i \in at THEN Entry(dict[i].k, LoadValue(m.value))
                                 ELSE dict[i]])

\* json.loads(text): JSONDecodeError on a text that is no JSON
json_loads(text) ==
    IF text.valid
    THEN [raised |-> FALSE, doc |-> LoadMembers(text.members, EmptyDict)]
    ELSE [raised |-> TRUE, doc |-> EmptyDict]

\* What get returns: None, or a dict
None == [found |-> FALSE, doc |-> EmptyDict]
Some(doc) == [found |-> TRUE, doc |-> doc]

\* A store that writes the row before it finds the data unserializable.
set_writes_first(table, collection, key, data) ==
    LET dumped == json_dumps(data)
    IN  [raised |-> IF dumped.raised THEN "TypeError" ELSE "none",
         rows |-> (<<collection, key>> :> dumped.text) @@ table]

\* SqliteDatabaseProvider.set: INSERT OR REPLACE of the serialized data;
\* TypeError, before the table is touched, when json.dumps raises.
set(table, collection, key, data) ==
    LET dumped == json_dumps(data)
    IN  IF dumped.raised
        THEN [raised |-> "TypeError", rows |-> table]
        ELSE [raised |-> "none",
              rows |-> (<<collection, key>> :> dumped.text) @@ table]

\* A store that selects the row by its key alone.
get_by_key_alone(table, collection, key) ==
    IF \A cell \in DOMAIN table : cell[2] # key THEN None
    ELSE LET cell == CHOOSE cell \in DOMAIN table : cell[2] = key
             loaded == json_loads(table[cell])
         IN  IF loaded.raised THEN None ELSE Some(loaded.doc)

\* SqliteDatabaseProvider.get: None when there is no row or when the row's
\* text does not deserialize.
get(table, collection, key) ==
    IF <<collection, key>> \notin DOMAIN table THEN None
    ELSE LET loaded == json_loads(table[<<collection, key>>])
         IN  IF loaded.raised THEN None ELSE Some(loaded.doc)

\* SqliteDatabaseProvider.remove: DELETE; True when a row was deleted
remove(table, collection, key) ==
    [ret |-> <<collection, key>> \in DOMAIN table,
     rows |-> [cell \in DOMAIN table \ {<<collection, key>>} |-> table[cell]]]

\* SqliteDatabaseProvider.clear_collection: DELETE of the collection's rows
clear_collection(table, collection) ==
    [ret |-> Cardinality({cell \in DOMAIN table : cell[1] = collection}),
     rows |-> [cell \in {c \in DOMAIN table : c[1] # collection} |-> table[cell]]]

\* SqliteDatabaseProvider.get_all: the rows of the collection that
\* deserialize, in the order the SELECT returns them (order: the keys in
\* that order)
RECURSIVE get_all(_, _, _)
get_all(table, collection, order) ==
    IF order = <<>> THEN <<>>
    ELSE LET key == Head(order)
             rest == get_all(table, collection, Tail(order))
         IN  IF <<collection, key>> \notin DOMAIN table THEN rest
             ELSE LET loaded == json_loads(table[<<collection, key>>])
                  IN  IF loaded.raised THEN rest
                      ELSE <<[key |-> key, doc |-> loaded.doc]>> \o rest

\* The documents callers store.
DocPlain == <<Entry(PyStr("a"), Scalar(PyStr("x")))>>
DocList == <<Entry(PyStr("a"), PyList(<<PyInt("1"), PyStr("x")>>))>>
DocTuple == <<Entry(PyStr("a"), PyTuple(<<PyInt("1"), PyStr("x")>>))>>
DocIntKey == <<Entry(PyInt("1"), Scalar(PyStr("x")))>>
DocSet == <<Entry(PyStr("a"), Scalar(PyObject))>>
DocListOfSet == <<Entry(PyStr("a"), PyList(<<PyInt("1"), PyObject>>))>>
Documents == {DocPlain, DocList, DocTuple, DocIntKey, DocSet, DocListOfSet}

EmptyTable == [cell \in {} |-> CorruptedText]

-----------------------------------------------------------------------------
(* The managers that cache in the database: ProjectManager, SecretManager,
   EntityManager.  Each method is an operator of the table it reads, its
   arguments and what the provider answers to the calls it makes; it gives
   the table it leaves, what it returns, whether it raised, and the
   provider calls it made. *)

PROJECTS_CACHE == "projects_cache"
SECRETS_CACHE == "secrets_cache"
ENTITIES_CACHE == "entities_cache"

\* what a provider call does: it raises, returns None, or returns a value
Raises == "raises"
Nothing == "nothing"
Found == "found"
Answers == {Raises, Nothing, Found}

\* the value of the dict's entry of that name
FieldOf(doc, name) == doc[CHOOSE i \in 1..Len(doc) : doc[i].k = PyStr(name)].v

\* `if cached:` a dict is true when it is not empty
Truthy(cached) == cached.found /\ cached.doc # EmptyDict

\* what a read returns: None, or a project (its path), a secret value, or
\* an entity (its uri and the ids of its versions)
NotFound == [found |-> FALSE, value |-> "", versions |-> <<>>]
Returned(value, versions) == [found |-> TRUE, value |-> value, versions |-> versions]

Outcome(table, ret, error, calls) ==
    [rows |-> table, ret |-> ret, raised |-> error, calls |-> calls,
     events |-> <<>>]

\* the same call, having emitted those events on the event manager
Emitting(result, events) == [result EXCEPT !.events = events]

(* models/domain.py: Project; ProjectManager *)

ProjectNames == {"proj1", "proj2"}
LocalPath == "/local"
RemotePath == "/remote"
Project(name, path) == [name |-> name, path |-> path]

\* project.model_dump(mode="json")
ProjectDump(project) ==
    <<Entry(PyStr("name"), Scalar(PyStr(project.name))),
      Entry(PyStr("path"), Scalar(PyStr(project.path)))>>

\* Project(**cached)
ProjectLoad(doc) == Project(FieldOf(doc, "name").s, FieldOf(doc, "path").s)

\* A _cache_project that stores nothing.
_cache_project_skipped(table, project) == table

_cache_project(table, project) ==
    set(table, PROJECTS_CACHE, project.name, ProjectDump(project)).rows

(* models/domain.py: Entity, Version; utils/uri_parser.py *)

VersionIds == {"v1", "v2"}
VersionLists == {<<>>, <<"v1">>, <<"v2">>, <<"v1", "v2">>}
BaseUris == {"entity://proj1/asset/hero"}
NoVersion == ""

\* An entity URI: the text before `?version=`, and the version after it.
EntityUri(base, version) == [base |-> base, version |-> version]
Uris == {EntityUri(base, version) : base \in BaseUris,
                                    version \in VersionIds \cup {NoVersion}}

\* parse_entity_uri(uri).version
ParsedVersion(uri) == uri.version

\* get_entity_cache_key: the URI without its version parameter
get_entity_cache_key(uri) == uri.base

Entity(uri, versions) == [uri |-> uri, versions |-> versions]

\* entity.model_dump()
EntityDump(entity) ==
    <<Entry(PyStr("uri"), Scalar(PyStr(entity.uri))),
      Entry(PyStr("versions"),
            PyList([i \in 1..Len(entity.versions) |-> PyStr(entity.versions[i])]))>>

\* Entity(**cached)
EntityLoad(doc) ==
    Entity(FieldOf(doc, "uri").s,
           [i \in 1..Len(FieldOf(doc, "versions").items) |->
              FieldOf(doc, "versions").items[i].s])

\* [v for v in entity.versions if v.id == version]
RECURSIVE FilterVersions(_, _)
FilterVersions(versions, version) ==
    IF versions = <<>> THEN <<>>
    ELSE IF Head(versions) = version
         THEN <<Head(versions)>> \o FilterVersions(Tail(versions), version)
         ELSE FilterVersions(Tail(versions), version)

(* EntityManager *)

\* _cache_entity: db.set under the base URI of entity.uri
_cache_entity(table, entity) ==
    set(table, ENTITIES_CACHE,
        get_entity_cache_key(EntityUri(entity.uri, NoVersion)),
        EntityDump(entity)).rows

\* _fetch_from_providers(uri, version): version_answer is what
\* provider.get_version does, entity_answer what provider.get_entity does
\* and fetched the versions of the entity it returns.
_fetch_from_providers(table, uri, version, has_provider, version_answer, entity_answer, fetched) ==
    LET base_uri == get_entity_cache_key(uri)
        entity == Entity(base_uri, fetched)
        minimal_entity == Entity(base_uri, <<version>>)
    IN  IF ~has_provider
        THEN Outcome(table, NotFound, FALSE, <<>>)
        ELSE IF version # NoVersion
        THEN IF version_answer = Raises
             THEN Outcome(table, NotFound, TRUE, <<"get_version">>)
             ELSE IF version_answer = Nothing
             THEN Outcome(table, NotFound, FALSE, <<"get_version">>)
             ELSE IF entity_answer = Raises
             THEN Outcome(table, NotFound, TRUE, <<"get_version", "get_entity">>)
             ELSE IF entity_answer = Found
             THEN Outcome(_cache_entity(table, entity),
                          Returned(base_uri, FilterVersions(entity.versions, version)),
                          FALSE, <<"get_version", "get_entity">>)
             ELSE Outcome(_cache_entity(table, minimal_entity),
                          Returned(base_uri, minimal_entity.versions),
                          FALSE, <<"get_version", "get_entity">>)
        ELSE IF entity_answer = Raises
             THEN Outcome(table, NotFound, TRUE, <<"get_entity">>)
             ELSE IF entity_answer = Found
             THEN Outcome(_cache_entity(table, entity),
                          Returned(entity.uri, entity.versions),
                          FALSE, <<"get_entity">>)
             ELSE Outcome(table, NotFound, FALSE, <<"get_entity">>)

\* get_entity, cache miss: `self._fetch_from_providers(uri)`, no version
MissVersion(uri) == NoVersion

\* EntityManager.get_entity(uri)
get_entity(table, uri, has_provider, version_answer, entity_answer, fetched) ==
    LET version == ParsedVersion(uri)
        base_uri == get_entity_cache_key(uri)
        cached == get(table, ENTITIES_CACHE, base_uri)
        entity == EntityLoad(cached.doc)
        versions == FilterVersions(entity.versions, version)
    IN  IF Truthy(cached)
        THEN IF version # NoVersion
             THEN IF versions = <<>>
                  THEN _fetch_from_providers(table, uri, version, has_provider,
                                             version_answer, entity_answer, fetched)
                  ELSE Outcome(table, Returned(entity.uri, versions), FALSE, <<>>)
             ELSE Outcome(table, Returned(entity.uri, entity.versions), FALSE, <<>>)
        ELSE _fetch_from_providers(table, uri, MissVersion(uri), has_provider,
                                   version_answer, entity_answer, fetched)

\* event_manager.emit(name, entity): the event, and whether the cache
\* holds the entity as emitted at the time of the emit
Event(name, entity, table) ==
    [name |-> name, uri |-> entity.uri, versions |-> entity.versions,
     cached |-> Truthy(get(table, ENTITIES_CACHE, entity.uri))
                /\ EntityLoad(get(table, ENTITIES_CACHE, entity.uri).doc) = entity]

\* `entity = await provider.create_entity(entity)`, and update_entity
\* likewise, are awaited outside any try block: what they raise leaves
\* the method
PublishPropagates(answer) == answer = Raises

\* EntityManager.add_entity(entity, publish): created_answer is what
\* provider.create_entity does (it returns the entity it was given).
add_entity(table, entity, publish, has_provider, created_answer) ==
    LET cached == _cache_entity(table, entity)
        published == IF created_answer = Raises THEN cached
                     ELSE _cache_entity(cached, entity)
        added == Returned(entity.uri, entity.versions)
    IN  IF publish /\ has_provider
        THEN IF PublishPropagates(created_answer)
             THEN Outcome(cached, NotFound, TRUE, <<"create_entity">>)
             ELSE Emitting(Outcome(published, added, FALSE, <<"create_entity">>),
                           <<Event("entity.added", entity, published)>>)
        ELSE Emitting(Outcome(cached, added, FALSE, <<>>),
                      <<Event("entity.added", entity, cached)>>)

\* the updates update_entity applies: none that shows in the versions, or
\* a new list of versions
NoUpdates == [versions |-> FALSE, to |-> <<>>]
SetVersions(versions) == [versions |-> TRUE, to |-> versions]
Updates == {NoUpdates} \cup {SetVersions(versions) : versions \in VersionLists}

\* EntityManager.update_entity(uri, updates, publish): the answers are
\* those of the get_entity it starts with, updated_answer is what
\* provider.update_entity does (it returns the entity it was given).
update_entity(table, uri, updates, publish, has_provider, version_answer, entity_answer, fetched, updated_answer) ==
    LET read == get_entity(table, uri, has_provider, version_answer,
                           entity_answer, fetched)
        entity == Entity(read.ret.value,
                         IF updates.versions THEN updates.to ELSE read.ret.versions)
        cached == _cache_entity(read.rows, entity)
        published == IF updated_answer = Raises THEN cached
                     ELSE _cache_entity(cached, entity)
        updated == Returned(entity.uri, entity.versions)
    IN  IF read.raised \/ ~read.ret.found
        THEN read
        ELSE IF publish /\ has_provider
        THEN IF PublishPropagates(updated_answer)
             THEN Outcome(cached, NotFound, TRUE, read.calls \o <<"update_entity">>)
             ELSE Emitting(Outcome(published, updated, FALSE,
                                   read.calls \o <<"update_entity">>),
                           <<Event("entity.updated", entity, published)>>)
        ELSE Emitting(Outcome(cached, updated, FALSE, read.calls),
                      <<Event("entity.updated", entity, cached)>>)

\* version.dependencies of the entity handed to resolve_dependencies: no
\* dependency, or version `of` depending on version `version` of `uri`
NoDependency == [of |-> "", uri |-> "", version |-> ""]
Dependency(of, uri, version) == [of |-> of, uri |-> uri, version |-> version]
Dependencies ==
    {NoDependency} \cup {Dependency(of, uri, version) :
                           of \in VersionIds, uri \in BaseUris, version \in VersionIds}

\* what resolve_dependencies returns: dependency URI -> entity
Resolved(entities) ==
    [found |-> TRUE, value |-> "", versions |-> <<>>, resolved |-> entities]

\* EntityManager.resolve_dependencies(entity, version_id): versions are
\* the versions of the entity, dependency what one of them declares; the
\* answers are those of the get_entity of the dependency.
resolve_dependencies(table, versions, dependency, version_id, has_provider, version_answer, entity_answer, fetched) ==
    LET full_uri == EntityUri(dependency.uri, dependency.version)
        read == get_entity(table, full_uri, has_provider, version_answer,
                           entity_answer, fetched)
    IN  IF version_id \notin {versions[i] : i \in 1..Len(versions)}
        THEN Outcome(table, Resolved(<<>>), FALSE, <<>>)
        ELSE IF dependency.of # version_id
        THEN Outcome(table, Resolved(<<>>), FALSE, <<>>)
        ELSE IF read.raised
        THEN read
        ELSE IF read.ret.found
        THEN Outcome(read.rows, Resolved(<<read.ret>>), FALSE, read.calls)
        ELSE Outcome(read.rows, Resolved(<<>>), FALSE, read.calls)

(* ProjectManager *)

\* _cache_entities(entities): each one set under its base URI
RECURSIVE _cache_entities(_, _)
_cache_entities(table, entities) ==
    IF entities = <<>> THEN table
    ELSE _cache_entities(_cache_entity(table, Head(entities)), Tail(entities))

\* ProjectManager.get_project(name): fetch_answer is what
\* provider.fetch_project does, prefetch_answer what
\* provider.prefetch_entities_for_project does, prefetched what it returns.
get_project(table, name, has_provider, fetch_answer, prefetch_answer, prefetched) ==
    LET cached == get(table, PROJECTS_CACHE, name)
        project == Project(name, RemotePath)
        stored == _cache_project(table, project)
    IN  IF Truthy(cached)
        THEN Outcome(table, Returned(ProjectLoad(cached.doc).path, <<>>), FALSE, <<>>)
        ELSE IF ~has_provider
        THEN Outcome(table, NotFound, FALSE, <<>>)
        ELSE IF fetch_answer = Raises
        THEN Outcome(table, NotFound, TRUE, <<"fetch_project">>)
        ELSE IF fetch_answer = Nothing
        THEN Outcome(table, NotFound, FALSE, <<"fetch_project">>)
        ELSE Outcome(IF prefetch_answer = Raises THEN stored
                     ELSE _cache_entities(stored, prefetched),
                     Returned(project.path, <<>>), FALSE,
                     <<"fetch_project", "prefetch_entities_for_project">>)

\* what list_projects returns: a list of projects
Listed(projects) ==
    [found |-> TRUE, value |-> "", versions |-> <<>>, projects |-> projects]

\* `for project in projects: self._cache_project(project)`
RECURSIVE CacheProjects(_, _)
CacheProjects(table, projects) ==
    IF projects = <<>> THEN table
    ELSE CacheProjects(_cache_project(table, Head(projects)), Tail(projects))

\* the lists provider.fetch_projects returns, and the orders in which
\* get_all may return the rows
FetchedProjects ==
    {<<>>, <<Project("proj1", RemotePath)>>, <<Project("proj2", RemotePath)>>,
     <<Project("proj1", RemotePath), Project("proj2", RemotePath)>>,
     <<Project("proj2", RemotePath), Project("proj1", RemotePath)>>}
RowOrders == {<<"proj1", "proj2">>, <<"proj2", "proj1">>}

\* A list_projects that serves the cache when it holds projects.
list_projects_from_cache(table, has_provider, answer, fetched, order) ==
    IF has_provider /\ get_all(table, PROJECTS_CACHE, order) = <<>>
    THEN Outcome(CacheProjects(table, fetched), Listed(fetched), FALSE,
                 <<"fetch_projects">>)
    ELSE Outcome(table,
                 Listed([i \in 1..Len(get_all(table, PROJECTS_CACHE, order)) |->
                           ProjectLoad(get_all(table, PROJECTS_CACHE, order)[i].doc)]),
                 FALSE, <<>>)

\* ProjectManager.list_projects(): answer is what provider.fetch_projects
\* does and fetched the list it returns.
list_projects(table, has_provider, answer, fetched, order) ==
    IF has_provider
    THEN IF answer = Raises
         THEN Outcome(table, NotFound, TRUE, <<"fetch_projects">>)
         ELSE Outcome(CacheProjects(table, fetched), Listed(fetched), FALSE,
                      <<"fetch_projects">>)
    ELSE Outcome(table,
                 Listed([i \in 1..Len(get_all(table, PROJECTS_CACHE, order)) |->
                           ProjectLoad(get_all(table, PROJECTS_CACHE, order)[i].doc)]),
                 FALSE, <<>>)

\* A create_project without the check for an existing project.
create_project_overwrites(table, name) ==
    Outcome(_cache_project(table, Project(name, LocalPath)),
            Returned(LocalPath, <<>>), FALSE, <<>>)

\* ProjectManager.create_project(name, path): ValueError when cached
create_project(table, name) ==
    IF Truthy(get(table, PROJECTS_CACHE, name))
    THEN Outcome(table, NotFound, TRUE, <<>>)
    ELSE Outcome(_cache_project(table, Project(name, LocalPath)),
                 Returned(LocalPath, <<>>), FALSE, <<>>)

\* ProjectManager.delete_project(name)
delete_project(table, name) ==
    Outcome(remove(table, PROJECTS_CACHE, name).rows, NotFound, FALSE, <<>>)

(* models/domain.py: Secret, SecretScope; SecretManager *)

USER == "USER"
PROJECT == "PROJECT"
SecretScope == {USER, PROJECT}

SecretKeys == {"K1", "K2"}
SecretValues == {"a", "b"}
SecretProjects == {"p1", "p2"}
\* project = None
NoProject == "<None>"

\* whom a secret belongs to: (key, USER) or (key, PROJECT, project)
SecretId(key, scope, project) == [key |-> key, scope |-> scope, project |-> project]
\* four of them: any two differ in the key, in the scope or in the project
SecretIds ==
    {SecretId("K1", USER, NoProject), SecretId("K1", PROJECT, "p1"),
     SecretId("K1", PROJECT, "p2"), SecretId("K2", PROJECT, "p1")}

Secret(key, value, scope, project) ==
    [key |-> key, value |-> value, scope |-> scope, project |-> project]

\* os.environ
EnvValue == "env"
Environs == {[k \in S |-> EnvValue] : S \in {{}, {"K1"}}}

\* f"{project}": None is written "None"
FormatProject(project) == IF project = NoProject THEN "None" ELSE project

\* A cache key that leaves out the scope and the project.
_make_cache_key_by_key_alone(key, scope, project) == key

\* _make_cache_key: f"{key}:{scope.value}:{project_val}"
_make_cache_key(key, scope, project) ==
    LET project_val == IF scope = PROJECT THEN FormatProject(project) ELSE ""
    IN  key \o ":" \o scope \o ":" \o project_val

\* the dict _cache_secret stores; `secret.project or ""`
SecretDump(secret) ==
    <<Entry(PyStr("key"), Scalar(PyStr(secret.key))),
      Entry(PyStr("value"), Scalar(PyStr(secret.value))),
      Entry(PyStr("scope"), Scalar(PyStr(secret.scope))),
      Entry(PyStr("project"),
            Scalar(PyStr(IF secret.project = NoProject THEN "" ELSE secret.project)))>>

_cache_secret(table, secret) ==
    set(table, SECRETS_CACHE,
        _make_cache_key(secret.key, secret.scope, secret.project),
        SecretDump(secret)).rows

\* An environment fallback that does not look at the scope.
EnvFallback_any_scope(key, scope, environ) == key \in DOMAIN environ

\* `if scope == SecretScope.USER: return os.environ.get(key)` has a value
EnvFallback(key, scope, environ) == scope = USER /\ key \in DOMAIN environ

\* SecretManager.get_secret(key, scope, project): answer is what
\* provider.get_secret does and value the value of the secret it returns.
get_secret(table, key, scope, project, has_provider, answer, value, environ) ==
    LET cache_key == _make_cache_key(key, scope, project)
        cached == get(table, SECRETS_CACHE, cache_key)
        secret == Secret(key, value, scope, project)
        calls == IF has_provider THEN <<"get_secret">> ELSE <<>>
    IN  IF Truthy(cached)
        THEN Outcome(table, Returned(FieldOf(cached.doc, "value").s, <<>>), FALSE, <<>>)
        ELSE IF has_provider /\ answer = Raises
        THEN Outcome(table, NotFound, TRUE, calls)
        ELSE IF has_provider /\ answer = Found
        THEN Outcome(_cache_secret(table, secret), Returned(secret.value, <<>>),
                     FALSE, calls)
        ELSE IF EnvFallback(key, scope, environ)
        THEN Outcome(table, Returned(environ[key], <<>>), FALSE, calls)
        ELSE Outcome(table, NotFound, FALSE, calls)

\* what provider.set_secret does, next to raising
Accepted == "accepted"
Rejected == "rejected"
True == Returned("True", <<>>)
False == Returned("False", <<>>)

\* A set_secret that caches before it asks the provider.
WritesCache_always(has_provider, answer) == TRUE

\* set_secret reaches _cache_secret when there is no provider or the
\* provider's set_secret returned True
WritesCache(has_provider, answer) == ~has_provider \/ answer = Accepted

\* SecretManager.set_secret(key, value, scope, project)
set_secret(table, key, value, scope, project, has_provider, answer) ==
    LET secret == Secret(key, value, scope, project)
        calls == IF has_provider THEN <<"set_secret">> ELSE <<>>
        stored == IF WritesCache(has_provider, answer)
                  THEN _cache_secret(table, secret) ELSE table
    IN  IF has_provider /\ answer = Raises
        THEN Outcome(stored, NotFound, TRUE, calls)
        ELSE IF has_provider /\ answer = Rejected
        THEN Outcome(stored, False, FALSE, calls)
        ELSE Outcome(stored, True, FALSE, calls)

\* clear_cache of ProjectManager and of SecretManager
clear_cache(table, collection) ==
    Outcome(clear_collection(table, collection).rows, NotFound, FALSE, <<>>)

-----------------------------------------------------------------------------
(* core/events/manager.py *)

\* the listeners the model registers for one event name
Handlers == {"sync_handler", "async_handler"}

\* inspect.iscoroutinefunction(func)
IsAsync(func) == func = "async_handler"

\* EventManager.Listener
Listener(func, fire_and_forget) ==
    [func |-> func, fire_and_forget |-> fire_and_forget,
     is_async |-> IsAsync(func)]

\* on(): the list after the registration; a handler already registered is
\* appended again.
on(list, handler, fire_and_forget) ==
    Append(list, Listener(handler, fire_and_forget))

\* off(): the new list the event name is bound to.
off(list, handler) ==
    LET Kept(listener) == listener.func # handler
    IN  SelectSeq(list, Kept)

Funcs(list) == {list[i].func : i \in 1..Len(list)}

\* What emit creates for listener number `reg` of its list: a task
\* (asyncio.create_task) when fire_and_forget, else a coroutine it hands
\* to gather. "scheduled" until the handler has run, then "ok" or "raised".
Task(listener, reg) ==
    [func |-> listener.func, fire_and_forget |-> listener.fire_and_forget,
     reg |-> reg, status |-> "scheduled"]

Awaited(created) ==
    {i \in 1..Len(created) : ~created[i].fire_and_forget}

\* A gather that returns as soon as it is called.
AllDone_at_once(created) == TRUE

\* asyncio.gather(*awaitable_tasks) has its results: every coroutine handed
\* to it has run.
AllDone(created) ==
    \A i \in Awaited(created) : created[i].status # "scheduled"

\* asyncio.gather(..., return_exceptions): how the await ends.
gather(created, return_exceptions) ==
    IF ~return_exceptions /\ \E i \in Awaited(created) : created[i].status = "raised"
    THEN "raised"
    ELSE "returned"

LogEntry(kind, func) == [kind |-> kind, func |-> func]

\* `for i, result in enumerate(results)`: one log_manager.error per
\* Exception among the results of gather, in the order of the listeners.
RECURSIVE ResultErrors(_)
ResultErrors(created) ==
    IF created = <<>> THEN <<>>
    ELSE LET task == Head(created)
         IN  (IF ~task.fire_and_forget /\ task.status = "raised"
              THEN <<LogEntry("in", task.func)>> ELSE <<>>)
             \o ResultErrors(Tail(created))

\* Where emit stands once listener number i - 1 of its list is dealt with.
AfterListener(list, i, created) ==
    IF i <= Len(list) THEN "dispatch"
    ELSE IF Awaited(created) # {} THEN "gather"
    ELSE "returned"

-----------------------------------------------------------------------------
(* core/managers/agent_manager.py *)

ToolNames == {"t1", "t2"}

\* self.agent is None
NoAgent == [id |-> 0, tools |-> <<>>]

\* _init_agent(): `created` is whether the secret manager has the API key
\* and Agent(...) was built; the new agent has the tools registered so far
\* (_register_tools_with_agent). Otherwise self.agent is left as it is.
_init_agent(current, registered, created) ==
    IF created THEN [id |-> current.id + 1, tools |-> registered]
    ELSE current

\* the calls a coroutine makes
RegisterTool(tool_def, reinit_agent) ==
    [name |-> "register_tool", tool_defs |-> <<tool_def>>,
     reinit_agent |-> reinit_agent]
RegisterTools(tool_defs) ==
    [name |-> "register_tools", tool_defs |-> tool_defs, reinit_agent |-> TRUE]
RunAgent == [name |-> "run_agent", tool_defs |-> <<>>, reinit_agent |-> FALSE]
NoCoroutineCall == [name |-> "none", tool_defs |-> <<>>, reinit_agent |-> FALSE]

\* The body of `async with self.lock` of the three coroutines, up to its
\* end or to `await self.agent.run(...)`: the tool list and the agent it
\* leaves, and whether it is suspended in the agent run.
Section(call, registered, current, created) ==
    IF call.name = "run_agent"
    THEN LET ready == IF current = NoAgent
                      THEN _init_agent(current, registered, created)
                      ELSE current
         IN  [tools |-> registered, agent |-> ready, awaits |-> ready # NoAgent]
    ELSE LET extended == registered \o call.tool_defs
         IN  [tools |-> extended,
              agent |-> IF current # NoAgent /\ call.reinit_agent
                        THEN _init_agent(current, extended, created)
                        ELSE current,
              awaits |-> FALSE]

\* A lock anyone can take.
CanAcquire_always(held, queue) == TRUE

\* asyncio.Lock.acquire(): taken at once when the lock is free and nobody
\* waits for it, else the caller queues behind the waiters.
CanAcquire(held, queue) == ~held /\ queue = <<>>

-----------------------------------------------------------------------------
(* EntityManager.update_entity, coroutine by coroutine *)

\* The two coroutines, the field each one's updates name, and the values
\* they give it.
Updaters == {"u1", "u2"}
FieldOfUpdater(c) == IF c = "u1" THEN "name" ELSE "description"
FieldValues == {"x", "y"}

\* the fields of the cached entity document other than uri and versions
EntityFields(name, description) == [name |-> name, description |-> description]

\* `for key, value in updates.items(): setattr(entity, key, value)`
ApplyUpdates(entity, field, value) == [entity EXCEPT ![field] = value]

\* A coroutine outside update_entity, and one suspended in
\* provider.update_entity(uri, entity) with its local `entity`.
Outside(value) == [pc |-> "idle", entity |-> EntityFields("", ""), value |-> value]
Publishing(entity, value) == [pc |-> "publishing", entity |-> entity, value |-> value]

-----------------------------------------------------------------------------
(* The manager and the call the host has in progress on it *)

VARIABLES
    disk,        \* the plugin.toml files, in directory-scan order
    config,      \* the central configuration file
    plugins,     \* self.plugins: name -> instance
    manifests,   \* self.manifests: name -> manifest
    load_order,  \* self._load_order
    pc,          \* where the call in progress stands
    phase,       \* the timing argument of the load_plugins call in progress
    discovered,  \* what discover_plugins returned to it
    to_load,     \* its filtered, sorted list
    idx,         \* its position in `for manifest in to_load`
    outcome,     \* per element of to_load: pending, skipped, failed, registered
    last_error,  \* the error of the manifest handled last, if it failed
    code_unit,   \* what the loader found in that manifest's directory
    instance,    \* the instance whose initialize() is awaited
    sd_pos,      \* shutdown_all: position in reversed(self._load_order)
    sd_log,      \* shutdown_all: the names whose shutdown hook it has invoked
    sd_errors,   \* shutdown_all: the names whose shutdown hook raised
    raised,      \* the call an exception has left, if any
    startup,     \* how far the load_plugins calls follow the host's lifespan
    rows,        \* the data_store table: (collection, key) -> data text
    written,     \* per (collection, key): what the callers last did to it
    db_op,       \* the call made last on the database provider, its outcome
    providers,   \* which managers were constructed with a provider
    environ,     \* os.environ
    mgr_op,      \* the call made last on a caching manager, its outcome
    listeners,   \* EventManager.listeners[event_name]
    em_pc,       \* where the emit call in progress stands
    em_list,     \* emit: the list its local name `listeners` is bound to
    em_alias,    \* emit: whether its loop still goes through self.listeners' list
    em_i,        \* emit: its position in `for listener in listeners`
    tasks,       \* emit: the coroutines and tasks it has created
    ev_log,      \* emit: what it has passed to log_manager.error
    ev_op,       \* the step made last on the event manager
    tools,       \* AgentManager.tools
    agent,       \* AgentManager.agent
    locked,      \* AgentManager.lock: whether it is held
    waiters,     \* AgentManager.lock: the coroutines waiting for it
    co,          \* per coroutine: its call and where it stands
    upd          \* update_entity: the cached entity, the coroutines' locals

vars == <<disk, config, plugins, manifests, load_order, pc, phase, discovered,
          to_load, idx, outcome, last_error, code_unit, instance, sd_pos,
          sd_log, sd_errors, raised, startup,
          rows, written, db_op, providers, environ, mgr_op,
          listeners, em_pc, em_list, em_alias, em_i, tasks, ev_log, ev_op,
          tools, agent, locked, waiters, co, upd>>

registry == <<plugins, manifests, load_order>>
environment == <<disk, config>>
load_call == <<phase, discovered, to_load, idx, outcome, last_error, code_unit,
               instance>>
shutdown_call == <<sd_pos, sd_log, sd_errors>>

NotRaised == "none"
host == <<startup>>
plugin_manager == <<registry, environment, load_call, shutdown_call, pc,
                    raised, host>>
database == <<rows, written, db_op>>
managers == <<providers, environ, mgr_op>>
\* what no call on the plugin manager touches
event_manager == <<listeners, em_pc, em_list, em_alias, em_i, tasks, ev_log,
                   ev_op>>
agent_manager == <<tools, agent, locked, waiters, co>>
components == <<event_manager, agent_manager, upd>>
services == <<database, managers, components>>

\* The host's lifespan calls load_plugins(PRE_INIT), then DEFAULT, then
\* AFTER_INIT; "off" once the calls made so far are not a prefix of that.
Lifespan(at, timing) ==
    IF at = "start" /\ timing = PRE_INIT THEN PRE_INIT
    ELSE IF at = PRE_INIT /\ timing = DEFAULT THEN DEFAULT
    ELSE IF at = DEFAULT /\ timing = AFTER_INIT THEN AFTER_INIT
    ELSE "off"

Disks == UNION { [1..n -> ManifestFile] : n \in 0..MaxManifests }

\* A fresh manager.
Fresh ==
    /\ plugins = EmptyMap
    /\ manifests = EmptyMap
    /\ load_order = <<>>
    /\ pc = "idle"
    /\ phase = DEFAULT
    /\ discovered = <<>>
    /\ to_load = <<>>
    /\ idx = 1
    /\ outcome = <<>>
    /\ last_error = NoError
    /\ code_unit = NotLooked
    /\ instance = NoInstance
    /\ sd_pos = 0
    /\ sd_log = <<>>
    /\ sd_errors = {}
    /\ raised = NotRaised
    /\ startup = "start"

\* What the callers did to a (collection, key) pair last.
NotWritten == [state |-> "absent", doc |-> EmptyDict]
Written(doc) == [state |-> "set", doc |-> doc]
Corrupted == [state |-> "corrupted", doc |-> EmptyDict]

NoCall == [name |-> "none", collection |-> "", key |-> "", data |-> EmptyDict,
           ret |-> None, raised |-> "none"]

\* A database file just created by _init_db: the table is empty.
DatabaseFresh ==
    /\ rows = EmptyTable
    /\ written = [cell \in Cells |-> NotWritten]
    /\ db_op = NoCall

\* the arguments of a call on a caching manager
Args(key, scope, project, version, value, versions, publish) ==
    [key |-> key, scope |-> scope, project |-> project, version |-> version,
     value |-> value, versions |-> versions, publish |-> publish]
NoArgs == Args("", "", "", "", "", <<>>, FALSE)

ManagerCall(name, args, result) ==
    [name |-> name, args |-> args, ret |-> result.ret,
     raised |-> result.raised, calls |-> result.calls, events |-> result.events]
NoManagerCall == ManagerCall("none", NoArgs, Outcome(EmptyTable, NotFound, FALSE, <<>>))

NoProviders == [project |-> FALSE, secret |-> FALSE]

\* No caching manager is in use.
ManagersFresh ==
    /\ providers = NoProviders
    /\ environ \in {e \in Environs : DOMAIN e = {}}
    /\ mgr_op = NoManagerCall

EventCall(name, handler) == [name |-> name, handler |-> handler]
NoEventCall == EventCall("none", "")

\* EventManager(): no listener, no emit in progress.
EventsFresh ==
    /\ listeners = <<>>
    /\ em_pc = "idle"
    /\ em_list = <<>>
    /\ em_alias = FALSE
    /\ em_i = 1
    /\ tasks = <<>>
    /\ ev_log = <<>>
    /\ ev_op = NoEventCall

\* AgentManager() without an API key: no tool, no agent, the lock free.
AgentFresh ==
    /\ tools = <<>>
    /\ agent = NoAgent
    /\ locked = FALSE
    /\ waiters = <<>>
    /\ co = [c \in {"c1", "c2", "c3"} |-> [call |-> NoCoroutineCall, pc |-> "idle"]]

\* One entity in the cache, no update_entity call made.
UpdatesFresh ==
    upd = [cache |-> EntityFields("old", "old"), provider |-> FALSE,
           co |-> [c \in Updaters |-> Outside("")]]

ComponentsFresh ==
    /\ EventsFresh
    /\ AgentFresh
    /\ UpdatesFresh

\* A manager constructed without a central configuration file.
Init ==
    /\ disk \in Disks
    /\ config = NoConfig
    /\ Fresh
    /\ DatabaseFresh
    /\ ComponentsFresh
    /\ ManagersFresh

\* A manager constructed with a central configuration file.
InitConfig ==
    /\ disk \in Disks
    /\ config \in Configs \ {NoConfig}
    /\ Fresh
    /\ DatabaseFresh
    /\ ComponentsFresh
    /\ ManagersFresh

\* load_plugins(timing), up to the head of the for loop.
LoadPlugins(timing) ==
    /\ pc = "idle"
    /\ raised = NotRaised
    /\ startup' = Lifespan(startup, timing)
    /\ phase' = timing
    /\ discovered' = discover_plugins(disk, config)
    /\ to_load' = SortByPriority(FilterByTiming(discovered', timing))
    /\ idx' = 1
    /\ outcome' = [i \in 1..Len(to_load') |-> "pending"]
    /\ last_error' = NoError
    /\ code_unit' = NotLooked
    /\ instance' = NoInstance
    /\ pc' = "loading"
    /\ UNCHANGED <<registry, environment, shutdown_call, raised>>
    /\ UNCHANGED services

\* The handler of load_plugins around _load_plugin: log and go on.
LoadFailed(error) ==
    IF LoadCaught(error)
    THEN /\ outcome' = [outcome EXCEPT ![idx] = "failed"]
         /\ last_error' = error
         /\ idx' = idx + 1
         /\ pc' = "loading"
         /\ raised' = raised
    ELSE /\ outcome' = [outcome EXCEPT ![idx] = "failed"]
         /\ last_error' = error
         /\ idx' = idx
         /\ pc' = "idle"
         /\ raised' = "load_plugins"

\* One turn of the loop: skip a loaded name, or run _load_plugin up to
\* `await plugin.initialize()`.
LoadNext ==
    /\ pc = "loading"
    /\ idx <= Len(to_load)
    /\ LET manifest == to_load[idx]
       IN  IF AlreadyLoaded(manifest, plugins)
           THEN /\ outcome' = [outcome EXCEPT ![idx] = "skipped"]
                /\ last_error' = NoError
                /\ code_unit' = NotLooked
                /\ idx' = idx + 1
                /\ UNCHANGED <<pc, instance, raised>>
           ELSE \E dir \in PluginDirs :
                  LET r == ResolvePlugin(manifest, dir)
                  IN  /\ code_unit' = CodeUnit(dir)
                      /\ IF r.error # NoError
                         THEN /\ LoadFailed(r.error)
                              /\ UNCHANGED instance
                         ELSE /\ instance' = [class |-> r.class.name,
                                              path |-> manifest.path,
                                              tools |-> <<>>]
                              /\ pc' = "initialize"
                              /\ last_error' = NoError
                              /\ UNCHANGED <<outcome, idx, raised>>
    /\ UNCHANGED <<registry, environment, phase, discovered, to_load,
                   shutdown_call, host>>
    /\ UNCHANGED services

\* A registration that leaves the load order as it is.
Register_without_load_order(manifest, plugin) ==
    /\ plugins' = (manifest.name :> plugin) @@ plugins
    /\ manifests' = (manifest.name :> manifest) @@ manifests
    /\ load_order' = load_order

\* self.plugins[name] = plugin; self.manifests[name] = manifest;
\* self._load_order.append(name)
Register(manifest, plugin) ==
    /\ plugins' = (manifest.name :> plugin) @@ plugins
    /\ manifests' = (manifest.name :> manifest) @@ manifests
    /\ load_order' = Append(load_order, manifest.name)

\* initialize() returns or raises; then the tool scan and the registration.
InitializeReturns ==
    /\ pc = "initialize"
    /\ \E init_ok \in InitializeOutcomes(instance.class),
          methods \in ToolMethods(instance.class) :
         /\ LET manifest == to_load[idx]
                scan == _scan_for_tools(instance.tools, methods)
                error == IF ~init_ok THEN InitializeError ELSE scan.error
            IN  /\ IF Registers(init_ok, scan.error)
                   THEN Register(manifest, [instance EXCEPT !.tools = scan.tools])
                   ELSE UNCHANGED registry
                /\ IF error # NoError
                   THEN LoadFailed(error)
                   ELSE /\ outcome' = [outcome EXCEPT ![idx] = "registered"]
                        /\ last_error' = NoError
                        /\ idx' = idx + 1
                        /\ pc' = "loading"
                        /\ UNCHANGED raised
    /\ instance' = NoInstance
    /\ UNCHANGED <<environment, phase, discovered, to_load, code_unit,
                   shutdown_call, host>>
    /\ UNCHANGED services

\* The loop is exhausted: load_plugins returns.
LoadReturn ==
    /\ pc = "loading"
    /\ idx > Len(to_load)
    /\ pc' = "idle"
    /\ phase' = DEFAULT
    /\ discovered' = <<>>
    /\ to_load' = <<>>
    /\ idx' = 1
    /\ outcome' = <<>>
    /\ last_error' = NoError
    /\ code_unit' = NotLooked
    /\ UNCHANGED <<registry, environment, instance, shutdown_call,
                   raised, host>>
    /\ UNCHANGED services

-----------------------------------------------------------------------------
(* shutdown_all *)

\* A shutdown that walks the load order forwards.
Reversed_forward(s) == s

\* reversed(self._load_order)
Reversed(s) == [i \in 1..Len(s) |-> s[Len(s) + 1 - i]]

ShutdownAll ==
    /\ pc = "idle"
    /\ raised = NotRaised
    /\ sd_pos' = 1
    /\ sd_log' = <<>>
    /\ sd_errors' = {}
    /\ pc' = "shutdown"
    /\ UNCHANGED <<registry, environment, load_call, raised, host>>
    /\ UNCHANGED services

\* One turn of the loop: plugin = self.plugins.get(name); its shutdown hook
\* is invoked and awaited.
ShutdownNext ==
    /\ pc = "shutdown"
    /\ sd_pos <= Len(load_order)
    /\ LET name == Reversed(load_order)[sd_pos]
       IN  IF name \in DOMAIN plugins
           THEN /\ sd_log' = Append(sd_log, name)
                /\ pc' = "shutdown_hook"
                /\ UNCHANGED sd_pos
           ELSE /\ sd_pos' = sd_pos + 1
                /\ UNCHANGED <<sd_log, pc>>
    /\ UNCHANGED <<registry, environment, load_call, sd_errors, raised, host>>
    /\ UNCHANGED services

\* The hook returns or raises; the handler logs and goes on.
ShutdownHookReturns ==
    /\ pc = "shutdown_hook"
    /\ \E hook_ok \in BOOLEAN :
         IF hook_ok
         THEN /\ sd_pos' = sd_pos + 1
              /\ pc' = "shutdown"
              /\ UNCHANGED <<sd_errors, raised>>
         ELSE IF ShutdownCaught(ShutdownError)
         THEN /\ sd_pos' = sd_pos + 1
              /\ pc' = "shutdown"
              /\ sd_errors' = sd_errors \cup {sd_log[Len(sd_log)]}
              /\ UNCHANGED raised
         ELSE /\ pc' = "idle"
              /\ sd_errors' = sd_errors \cup {sd_log[Len(sd_log)]}
              /\ raised' = "shutdown_all"
              /\ UNCHANGED sd_pos
    /\ UNCHANGED <<registry, environment, load_call, sd_log, host>>
    /\ UNCHANGED services

ShutdownReturn ==
    /\ pc = "shutdown"
    /\ sd_pos > Len(load_order)
    /\ pc' = "idle"
    /\ sd_pos' = 0
    /\ sd_log' = <<>>
    /\ sd_errors' = {}
    /\ UNCHANGED <<registry, environment, load_call, raised, host>>
    /\ UNCHANGED services

Next ==
    \/ \E timing \in PluginTiming : LoadPlugins(timing)
    \/ LoadNext
    \/ InitializeReturns
    \/ LoadReturn
    \/ ShutdownAll
    \/ ShutdownNext
    \/ ShutdownHookReturns
    \/ ShutdownReturn

Spec == Init /\ [][Next]_vars

SpecConfig == InitConfig /\ [][Next]_vars

-----------------------------------------------------------------------------
(* The host: app.py's lifespan, then POST /plugins/reload requests, one   *)
(* load_plugins call at a time.                                           *)

\* Where the host stands after its next load_plugins call: the three calls
\* of lifespan, then the two calls of every reload_plugins request; "off"
\* for a call the host does not make there.
HostLifespan(at, timing) ==
    IF at \in {"start", PRE_INIT, DEFAULT} THEN Lifespan(at, timing)
    ELSE IF at \in {AFTER_INIT, "reloaded"} /\ timing = DEFAULT THEN "reload"
    ELSE IF at = "reload" /\ timing = AFTER_INIT THEN "reloaded"
    ELSE "off"

\* The host's next load_plugins(timing) call, up to the head of the for
\* loop.
HostLoadPlugins(timing) ==
    /\ pc = "idle"
    /\ raised = NotRaised
    /\ HostLifespan(startup, timing) # "off"
    /\ startup' = HostLifespan(startup, timing)
    /\ phase' = timing
    /\ discovered' = discover_plugins(disk, config)
    /\ to_load' = SortByPriority(FilterByTiming(discovered', timing))
    /\ idx' = 1
    /\ outcome' = [i \in 1..Len(to_load') |-> "pending"]
    /\ last_error' = NoError
    /\ code_unit' = NotLooked
    /\ instance' = NoInstance
    /\ pc' = "loading"
    /\ UNCHANGED <<registry, environment, shutdown_call, raised>>
    /\ UNCHANGED services

NextHost ==
    \/ \E timing \in PluginTiming : HostLoadPlugins(timing)
    \/ LoadNext
    \/ InitializeReturns
    \/ LoadReturn

SpecHost == Init /\ [][NextHost]_vars

-----------------------------------------------------------------------------
(* DatabaseManager over SqliteDatabaseProvider: one action per call *)

Call(name, collection, key, data, ret, error) ==
    [name |-> name, collection |-> collection, key |-> key, data |-> data,
     ret |-> ret, raised |-> error]

\* db.set(collection, key, data)
Set(collection, key, data) ==
    LET r == set(rows, collection, key, data)
    IN  /\ rows' = r.rows
        /\ written' = IF r.raised = "none"
                      THEN [written EXCEPT ![<<collection, key>>] = Written(data)]
                      ELSE written
        /\ db_op' = Call("set", collection, key, data, None, r.raised)
        /\ UNCHANGED <<plugin_manager, managers, components>>

\* db.get(collection, key)
Get(collection, key) ==
    /\ db_op' = Call("get", collection, key, EmptyDict,
                     get(rows, collection, key), "none")
    /\ UNCHANGED <<rows, written, plugin_manager, managers, components>>

\* db.remove(collection, key)
Remove(collection, key) ==
    LET r == remove(rows, collection, key)
    IN  /\ rows' = r.rows
        /\ written' = [written EXCEPT ![<<collection, key>>] = NotWritten]
        /\ db_op' = Call("remove", collection, key, EmptyDict,
                         IF r.ret THEN Some(EmptyDict) ELSE None, "none")
        /\ UNCHANGED <<plugin_manager, managers, components>>

\* db.clear_collection(collection)
ClearCollection(collection) ==
    LET r == clear_collection(rows, collection)
    IN  /\ rows' = r.rows
        /\ written' = [cell \in Cells |->
                         IF cell[1] = collection THEN NotWritten ELSE written[cell]]
        /\ db_op' = Call("clear_collection", collection, "", EmptyDict,
                         IF r.ret > 0 THEN Some(EmptyDict) ELSE None, "none")
        /\ UNCHANGED <<plugin_manager, managers, components>>

\* Another writer of the database file leaves a text that is no JSON in
\* the row of (collection, key).
CorruptRow(collection, key) ==
    /\ rows' = (<<collection, key>> :> CorruptedText) @@ rows
    /\ written' = [written EXCEPT ![<<collection, key>>] = Corrupted]
    /\ db_op' = Call("corrupt", collection, key, EmptyDict, None, "none")
    /\ UNCHANGED <<plugin_manager, managers, components>>

InitStore ==
    /\ disk = <<>>
    /\ config = NoConfig
    /\ Fresh
    /\ DatabaseFresh
    /\ ComponentsFresh
    /\ ManagersFresh

NextStore ==
    \/ \E cell \in Cells, data \in Documents : Set(cell[1], cell[2], data)
    \/ \E cell \in Cells : Get(cell[1], cell[2])
    \/ \E cell \in Cells : Remove(cell[1], cell[2])
    \/ \E collection \in Collections : ClearCollection(collection)
    \/ \E cell \in Cells : CorruptRow(cell[1], cell[2])

SpecStore == InitStore /\ [][NextStore]_vars

-----------------------------------------------------------------------------
(* ProjectManager, SecretManager and EntityManager over one database: one
   action per call, the provider answering as it likes *)

\* what the provider may answer when it is asked; an answer nobody asks for
\* is left at Nothing
Asks(asked, answers) == IF asked THEN answers ELSE {Nothing}

\* what prefetch_entities_for_project returns
Prefetched ==
    {<<>>} \cup {<<Entity(uri, versions)>> : uri \in BaseUris, versions \in VersionLists}

GetProject(name) ==
    /\ \E fetch_answer \in Asks(providers.project, Answers) :
       \E prefetch_answer \in Asks(fetch_answer = Found, {Raises, Found}) :
       \E prefetched \in IF prefetch_answer = Found THEN Prefetched ELSE {<<>>} :
         \E result \in {get_project(rows, name, providers.project, fetch_answer,
                                   prefetch_answer, prefetched)} :
             /\ rows' = result.rows
             /\ mgr_op' = ManagerCall("get_project",
                                      Args(name, "", "", "", "", <<>>, FALSE), result)
    /\ UNCHANGED <<plugin_manager, written, db_op, providers, environ, components>>

CreateProject(name) ==
    /\ \E result \in {create_project(rows, name)} :
           /\ rows' = result.rows
           /\ mgr_op' = ManagerCall("create_project",
                                    Args(name, "", "", "", "", <<>>, FALSE), result)
    /\ UNCHANGED <<plugin_manager, written, db_op, providers, environ, components>>

DeleteProject(name) ==
    /\ \E result \in {delete_project(rows, name)} :
           /\ rows' = result.rows
           /\ mgr_op' = ManagerCall("delete_project",
                                    Args(name, "", "", "", "", <<>>, FALSE), result)
    /\ UNCHANGED <<plugin_manager, written, db_op, providers, environ, components>>

ClearProjectCache ==
    /\ \E result \in {clear_cache(rows, PROJECTS_CACHE)} :
           /\ rows' = result.rows
           /\ mgr_op' = ManagerCall("projects.clear_cache", NoArgs, result)
    /\ UNCHANGED <<plugin_manager, written, db_op, providers, environ, components>>

GetSecret(id) ==
    /\ \E answer \in Asks(providers.secret, Answers) :
       \E value \in IF answer = Found THEN SecretValues ELSE {""} :
         \E result \in {get_secret(rows, id.key, id.scope, id.project,
                                  providers.secret, answer, value, environ)} :
             /\ rows' = result.rows
             /\ mgr_op' = ManagerCall("get_secret",
                            Args(id.key, id.scope, id.project, "", "", <<>>, FALSE),
                            result)
    /\ UNCHANGED <<plugin_manager, written, db_op, providers, environ, components>>

SetSecret(id, value) ==
    /\ \E answer \in Asks(providers.secret, {Raises, Accepted, Rejected}) :
         \E result \in {set_secret(rows, id.key, value, id.scope, id.project,
                                  providers.secret, answer)} :
             /\ rows' = result.rows
             /\ mgr_op' = ManagerCall("set_secret",
                            Args(id.key, id.scope, id.project, "", value, <<>>, FALSE),
                            result)
    /\ UNCHANGED <<plugin_manager, written, db_op, providers, environ, components>>

ClearSecretCache ==
    /\ \E result \in {clear_cache(rows, SECRETS_CACHE)} :
           /\ rows' = result.rows
           /\ mgr_op' = ManagerCall("secrets.clear_cache", NoArgs, result)
    /\ UNCHANGED <<plugin_manager, written, db_op, providers, environ, components>>

\* the ids in a list of versions
Ids(versions) == {versions[i] : i \in 1..Len(versions)}

\* A provider that has found a version returns it among the versions of
\* the entity.
GetEntity(uri) ==
    /\ \E version_answer \in Asks(providers.project /\ uri.version # NoVersion, Answers) :
       \E entity_answer \in Asks(providers.project, Answers) :
       \E fetched \in IF entity_answer = Found THEN VersionLists ELSE {<<>>} :
         /\ version_answer = Found /\ entity_answer = Found
              => uri.version \in Ids(fetched)
         /\ \E result \in {get_entity(rows, uri, providers.project, version_answer,
                                     entity_answer, fetched)} :
                /\ rows' = result.rows
                /\ mgr_op' = ManagerCall("get_entity",
                               Args(uri.base, "", "", uri.version, "", <<>>, FALSE),
                               result)
    /\ UNCHANGED <<plugin_manager, written, db_op, providers, environ, components>>

AddEntity(entity, publish) ==
    /\ \E created_answer \in Asks(providers.project /\ publish, {Raises, Found}) :
         \E result \in {add_entity(rows, entity, publish, providers.project,
                                  created_answer)} :
             /\ rows' = result.rows
             /\ mgr_op' = ManagerCall("add_entity",
                            Args(entity.uri, "", "", "", "", entity.versions, publish),
                            result)
    /\ UNCHANGED <<plugin_manager, written, db_op, providers, environ, components>>

InitCache ==
    /\ disk = <<>>
    /\ config = NoConfig
    /\ Fresh
    /\ DatabaseFresh
    /\ ComponentsFresh
    /\ providers \in [project : BOOLEAN, secret : BOOLEAN]
    /\ environ \in Environs
    /\ mgr_op = NoManagerCall

\* the project and the secrets the application uses next to its entities
UsedProjectNames == {"proj1"}

UsedSecretIds == {SecretId("K1", USER, NoProject), SecretId("K1", PROJECT, "p1")}

NextCache ==
    \/ \E name \in UsedProjectNames : GetProject(name)
    \/ \E name \in UsedProjectNames : CreateProject(name)
    \/ \E name \in UsedProjectNames : DeleteProject(name)
    \/ ClearProjectCache
    \/ \E id \in UsedSecretIds : GetSecret(id)
    \/ \E id \in UsedSecretIds, value \in SecretValues : SetSecret(id, value)
    \/ ClearSecretCache
    \/ \E uri \in Uris : GetEntity(uri)
    \/ \E uri \in BaseUris, versions \in VersionLists, publish \in BOOLEAN :
         AddEntity(Entity(uri, versions), publish)

SpecCache == InitCache /\ [][NextCache]_vars

ListProjects ==
    /\ \E answer \in Asks(providers.project, {Raises, Found}) :
       \E fetched \in IF answer = Found THEN FetchedProjects ELSE {<<>>} :
       \E order \in IF providers.project THEN {<<>>} ELSE RowOrders :
       \E result \in {list_projects(rows, providers.project, answer, fetched, order)} :
             /\ rows' = result.rows
             /\ mgr_op' = ManagerCall("list_projects", NoArgs, result)
    /\ UNCHANGED <<plugin_manager, written, db_op, providers, environ, components>>

UpdateEntity(uri, updates, publish) ==
    /\ \E version_answer \in Asks(providers.project /\ uri.version # NoVersion, Answers) :
       \E entity_answer \in Asks(providers.project, Answers) :
       \E fetched \in IF entity_answer = Found THEN VersionLists ELSE {<<>>} :
       \E updated_answer \in Asks(providers.project /\ publish, {Raises, Found}) :
         /\ version_answer = Found /\ entity_answer = Found
              => uri.version \in Ids(fetched)
         /\ \E result \in {update_entity(rows, uri, updates, publish, providers.project,
                                         version_answer, entity_answer, fetched,
                                         updated_answer)} :
                /\ rows' = result.rows
                /\ mgr_op' = ManagerCall("update_entity",
                               Args(uri.base, "", "", uri.version,
                                    IF updates.versions THEN "versions" ELSE "",
                                    updates.to, publish),
                               result)
    /\ UNCHANGED <<plugin_manager, written, db_op, providers, environ, components>>

\* In the record of the call `versions` are the ids of the entity's
\* versions, `version` is version_id, `project` the version that declares
\* the dependency, `key` and `value` the URI and the version depended on.
ResolveDependencies(versions, dependency, version_id) ==
    /\ \E asked \in {providers.project /\ version_id \in Ids(versions)
                      /\ dependency.of = version_id} :
       \E version_answer \in Asks(asked, Answers) :
       \E entity_answer \in Asks(asked, Answers) :
       \E fetched \in IF entity_answer = Found THEN VersionLists ELSE {<<>>} :
         /\ version_answer = Found /\ entity_answer = Found
              => dependency.version \in Ids(fetched)
         /\ \E result \in {resolve_dependencies(rows, versions, dependency, version_id,
                                                providers.project, version_answer,
                                                entity_answer, fetched)} :
                /\ rows' = result.rows
                /\ mgr_op' = ManagerCall("resolve_dependencies",
                               Args(dependency.uri, "", dependency.of, version_id,
                                    dependency.version, versions, FALSE),
                               result)
    /\ UNCHANGED <<plugin_manager, written, db_op, providers, environ, components>>

\* The entity manager alone, with or without a provider.
InitEntities ==
    /\ disk = <<>>
    /\ config = NoConfig
    /\ Fresh
    /\ DatabaseFresh
    /\ ComponentsFresh
    /\ providers \in [project : BOOLEAN, secret : {FALSE}]
    /\ environ \in {e \in Environs : DOMAIN e = {}}
    /\ mgr_op = NoManagerCall

NextEntities ==
    \/ \E uri \in Uris : GetEntity(uri)
    \/ \E uri \in BaseUris, versions \in VersionLists, publish \in BOOLEAN :
         AddEntity(Entity(uri, versions), publish)
    \/ \E uri \in Uris, updates \in Updates, publish \in BOOLEAN :
         UpdateEntity(uri, updates, publish)
    \/ \E versions \in VersionLists, dependency \in Dependencies,
          version_id \in VersionIds :
         ResolveDependencies(versions, dependency, version_id)

SpecEntities == InitEntities /\ [][NextEntities]_vars

\* The project manager alone, with or without a provider.
InitProjects ==
    /\ disk = <<>>
    /\ config = NoConfig
    /\ Fresh
    /\ DatabaseFresh
    /\ ComponentsFresh
    /\ providers \in [project : BOOLEAN, secret : {FALSE}]
    /\ environ \in {e \in Environs : DOMAIN e = {}}
    /\ mgr_op = NoManagerCall

NextProjects ==
    \/ \E name \in ProjectNames : GetProject(name)
    \/ \E name \in ProjectNames : CreateProject(name)
    \/ \E name \in ProjectNames : DeleteProject(name)
    \/ ClearProjectCache
    \/ ListProjects

SpecProjects == InitProjects /\ [][NextProjects]_vars

\* The secret manager alone, with or without a provider.
InitSecrets ==
    /\ disk = <<>>
    /\ config = NoConfig
    /\ Fresh
    /\ DatabaseFresh
    /\ ComponentsFresh
    /\ providers \in [project : {FALSE}, secret : BOOLEAN]
    /\ environ \in Environs
    /\ mgr_op = NoManagerCall

NextSecrets ==
    \/ \E id \in SecretIds : GetSecret(id)
    \/ \E id \in SecretIds, value \in SecretValues : SetSecret(id, value)
    \/ ClearSecretCache

SpecSecrets == InitSecrets /\ [][NextSecrets]_vars

\* Secrets whose key or project is any string: one with ':' in it, the
\* string "None", or no project at all under the PROJECT scope.
AnySecretIds ==
    {SecretId("k:PROJECT:p", USER, NoProject), SecretId("k", PROJECT, "p:USER:"),
     SecretId("k", PROJECT, NoProject), SecretId("k", PROJECT, "None"),
     SecretId("k", USER, NoProject)}

NextAnySecrets ==
    \/ \E id \in AnySecretIds : GetSecret(id)
    \/ \E id \in AnySecretIds, value \in SecretValues : SetSecret(id, value)

SpecAnySecrets == InitSecrets /\ [][NextAnySecrets]_vars

-----------------------------------------------------------------------------
(* EventManager: on, off and one emit at a time for one event name. emit  *)
(* is followed from one suspension point to the next; the other calls and *)
(* the handlers run only while it is suspended or has returned.           *)

\* emit is not between two suspension points.
Suspended == em_pc # "dispatch"

\* on(event_name, handler, fire_and_forget)
On(handler, fire_and_forget) ==
    /\ Suspended
    /\ Len(listeners) < MaxListeners
    /\ listeners' = on(listeners, handler, fire_and_forget)
    /\ em_list' = IF em_alias THEN on(em_list, handler, fire_and_forget)
                  ELSE em_list
    /\ ev_op' = EventCall("on", handler)
    /\ UNCHANGED <<em_pc, em_alias, em_i, tasks, ev_log>>
    /\ UNCHANGED <<plugin_manager, database, managers, agent_manager, upd>>

\* off(event_name, handler)
Off(handler) ==
    /\ Suspended
    /\ listeners' = off(listeners, handler)
    /\ em_alias' = FALSE
    /\ ev_op' = EventCall("off", handler)
    /\ UNCHANGED <<em_pc, em_list, em_i, tasks, ev_log>>
    /\ UNCHANGED <<plugin_manager, database, managers, agent_manager, upd>>

\* emit(event_name): `listeners = self.listeners.get(event_name)` and the
\* fast path.
EmitStart ==
    /\ em_pc \in {"idle", "returned"}
    /\ em_list' = listeners
    /\ em_alias' = (listeners # <<>>)
    /\ em_i' = 1
    /\ tasks' = <<>>
    /\ ev_log' = <<>>
    /\ em_pc' = IF listeners = <<>> THEN "returned" ELSE "dispatch"
    /\ ev_op' = EventCall("emit", "")
    /\ UNCHANGED listeners
    /\ UNCHANGED <<plugin_manager, database, managers, agent_manager, upd>>

\* One turn of `for listener in listeners`: the call of an async handler
\* may raise (the except branch awaits log_manager.error), else the
\* coroutine or the task is created.
Dispatch ==
    /\ em_pc = "dispatch"
    /\ em_i <= Len(em_list)
    /\ LET listener == em_list[em_i]
       IN  \E call_raises \in IF listener.is_async THEN BOOLEAN ELSE {FALSE} :
             IF call_raises
             THEN /\ ev_log' = Append(ev_log, LogEntry("preparing", listener.func))
                  /\ em_pc' = "logging"
                  /\ UNCHANGED tasks
             ELSE /\ tasks' = Append(tasks, Task(listener, em_i))
                  /\ em_pc' = AfterListener(em_list, em_i + 1, tasks')
                  /\ UNCHANGED ev_log
    /\ em_i' = em_i + 1
    /\ em_alias' = (em_alias /\ em_pc' \in {"dispatch", "logging"})
    /\ ev_op' = EventCall("dispatch", em_list[em_i].func)
    /\ UNCHANGED <<listeners, em_list>>
    /\ UNCHANGED <<plugin_manager, database, managers, agent_manager, upd>>

\* `await log_manager.error(...)` of the except branch returns.
Logged ==
    /\ em_pc = "logging"
    /\ em_pc' = AfterListener(em_list, em_i, tasks)
    /\ em_alias' = (em_alias /\ em_pc' \in {"dispatch", "logging"})
    /\ ev_op' = EventCall("logged", "")
    /\ UNCHANGED <<listeners, em_list, em_i, tasks, ev_log>>
    /\ UNCHANGED <<plugin_manager, database, managers, agent_manager, upd>>

\* The event loop runs a handler: a task as soon as emit is suspended, a
\* coroutine handed to gather once gather is awaited.
Run(i) ==
    /\ Suspended
    /\ i \in 1..Len(tasks)
    /\ tasks[i].status = "scheduled"
    /\ ~tasks[i].fire_and_forget => em_pc = "gather"
    /\ \E handler_raises \in BOOLEAN :
         tasks' = [tasks EXCEPT ![i].status =
                     IF handler_raises THEN "raised" ELSE "ok"]
    /\ ev_op' = EventCall("run", tasks[i].func)
    /\ UNCHANGED <<listeners, em_pc, em_list, em_alias, em_i, ev_log>>
    /\ UNCHANGED <<plugin_manager, database, managers, agent_manager, upd>>

\* `results = await asyncio.gather(*awaitable_tasks, return_exceptions=True)`
\* returns, the errors among the results are logged, emit returns.
Return ==
    /\ em_pc = "gather"
    /\ AllDone(tasks)
    /\ em_pc' = gather(tasks, TRUE)
    /\ ev_log' = ev_log \o ResultErrors(tasks)
    /\ em_alias' = FALSE
    /\ ev_op' = EventCall("return", "")
    /\ UNCHANGED <<listeners, em_list, em_i, tasks>>
    /\ UNCHANGED <<plugin_manager, database, managers, agent_manager, upd>>

InitEvents ==
    /\ disk = <<>>
    /\ config = NoConfig
    /\ Fresh
    /\ DatabaseFresh
    /\ ManagersFresh
    /\ ComponentsFresh

NextEvents ==
    \/ \E handler \in Handlers, fire_and_forget \in BOOLEAN :
         On(handler, fire_and_forget)
    \/ \E handler \in Handlers : Off(handler)
    \/ EmitStart
    \/ Dispatch
    \/ Logged
    \/ \E i \in 1..MaxListeners : Run(i)
    \/ Return

SpecEvents == InitEvents /\ [][NextEvents]_vars

-----------------------------------------------------------------------------
(* AgentManager: coroutines calling register_tool, register_tools and     *)
(* run_agent, each followed from one suspension point to the next.        *)

Coroutines == {"c1", "c2", "c3"}

\* the lists register_tools is called with
ToolLists == {<<"t1">>, <<"t1", "t2">>}

CoroutineCalls ==
    {RegisterTool(tool_def, reinit) : tool_def \in ToolNames, reinit \in BOOLEAN}
    \cup {RegisterTools(tool_defs) : tool_defs \in ToolLists}
    \cup {RunAgent}

\* Coroutine c runs the locked section of its call and leaves the lock,
\* or stays in it, suspended in the agent run.
RunsSection(c, call) ==
    \E created \in BOOLEAN :
      \E result \in {Section(call, tools, agent, created)} :
        /\ tools' = result.tools
        /\ agent' = result.agent
        /\ locked' = result.awaits
        /\ co' = [co EXCEPT ![c] = [call |-> IF result.awaits THEN call
                                             ELSE NoCoroutineCall,
                                    pc |-> IF result.awaits THEN "running"
                                           ELSE "idle"]]

\* A coroutine calls one of the three: it takes the lock and runs its
\* section, or waits for the lock.
Enter(c, call) ==
    /\ co[c].pc = "idle"
    /\ Len(tools) + Len(call.tool_defs) <= MaxTools
    /\ IF CanAcquire(locked, waiters)
       THEN RunsSection(c, call) /\ UNCHANGED waiters
       ELSE /\ waiters' = Append(waiters, c)
            /\ co' = [co EXCEPT ![c] = [call |-> call, pc |-> "waiting"]]
            /\ UNCHANGED <<tools, agent, locked>>
    /\ UNCHANGED <<plugin_manager, database, managers, event_manager, upd>>

\* The first waiter, woken by release(), takes the lock and runs its
\* section.
Resume(c) ==
    /\ co[c].pc = "waiting"
    /\ waiters # <<>> /\ Head(waiters) = c
    /\ ~locked
    /\ waiters' = Tail(waiters)
    /\ RunsSection(c, co[c].call)
    /\ UNCHANGED <<plugin_manager, database, managers, event_manager, upd>>

\* `await self.agent.run(...)` returns or raises: run_agent leaves the
\* `async with` block.
AgentRunEnds(c) ==
    /\ co[c].pc = "running"
    /\ locked' = FALSE
    /\ co' = [co EXCEPT ![c] = [call |-> NoCoroutineCall, pc |-> "idle"]]
    /\ UNCHANGED <<tools, agent, waiters>>
    /\ UNCHANGED <<plugin_manager, database, managers, event_manager, upd>>

InitAgent ==
    /\ disk = <<>>
    /\ config = NoConfig
    /\ Fresh
    /\ DatabaseFresh
    /\ ManagersFresh
    /\ ComponentsFresh

NextAgent ==
    \/ \E c \in Coroutines, call \in CoroutineCalls : Enter(c, call)
    \/ \E c \in Coroutines : Resume(c)
    \/ \E c \in Coroutines : AgentRunEnds(c)

SpecAgent == InitAgent /\ [][NextAgent]_vars

\* A tool function the agent run of coroutine c is executing awaits
\* register_tool: `async with self.lock` finds the lock held, by the
\* run_agent it runs in (asyncio.Lock is not reentrant), and c queues for
\* it, suspended inside its own agent run.
ToolCallsRegisterTool(c, call) ==
    /\ co[c].pc = "running"
    /\ Len(tools) + Len(call.tool_defs) <= MaxTools
    /\ ~CanAcquire(locked, waiters)
    /\ waiters' = Append(waiters, c)
    /\ co' = [co EXCEPT ![c] = [call |-> call, pc |-> "waiting"]]
    /\ UNCHANGED <<tools, agent, locked>>
    /\ UNCHANGED <<plugin_manager, database, managers, event_manager, upd>>

NextAgentTools ==
    \/ \E c \in Coroutines, call \in CoroutineCalls : Enter(c, call)
    \/ \E c \in Coroutines : Resume(c)
    \/ \E c \in Coroutines : AgentRunEnds(c)
    \/ \E c \in Coroutines, tool_def \in ToolNames, reinit \in BOOLEAN :
         ToolCallsRegisterTool(c, RegisterTool(tool_def, reinit))

\* The event loop runs every coroutine that can run: a waiter the lock's
\* release has woken takes the lock, and an agent run that waits for
\* nothing ends.
AgentFairness ==
    \A c \in Coroutines : WF_vars(Resume(c)) /\ WF_vars(AgentRunEnds(c))

\* the calls made from outside agent runs only
SpecAgentFair == InitAgent /\ [][NextAgent]_vars /\ AgentFairness
\* and with tool functions that call register_tool
SpecAgentLive == InitAgent /\ [][NextAgentTools]_vars /\ AgentFairness

-----------------------------------------------------------------------------
(* EntityManager.update_entity called by two coroutines on one cached     *)
(* entity, each followed from one suspension point to the next.           *)

\* update_entity(uri, {field: value}, publish) up to its first suspension:
\* the entity is read from the cache, updated and cached; with publish and
\* a provider the coroutine is then suspended in provider.update_entity.
UpdateBegins(c, value, publish) ==
    /\ upd.co[c].pc = "idle"
    /\ LET entity == ApplyUpdates(upd.cache, FieldOfUpdater(c), value)
       IN  upd' = [upd EXCEPT !.cache = entity,
                              !.co[c] = IF publish /\ upd.provider
                                        THEN Publishing(entity, value)
                                        ELSE Outside(value)]
    /\ UNCHANGED <<plugin_manager, database, managers, event_manager, agent_manager>>

\* provider.update_entity returns the entity it was given, which is cached
\* again, or raises.
PublishEnds(c) ==
    /\ upd.co[c].pc = "publishing"
    /\ \E answer \in {Found, Raises} :
         upd' = [upd EXCEPT !.cache = IF answer = Found THEN upd.co[c].entity
                                      ELSE upd.cache,
                            !.co[c] = Outside(upd.co[c].value)]
    /\ UNCHANGED <<plugin_manager, database, managers, event_manager, agent_manager>>

InitUpdates ==
    /\ disk = <<>>
    /\ config = NoConfig
    /\ Fresh
    /\ DatabaseFresh
    /\ ManagersFresh
    /\ EventsFresh
    /\ AgentFresh
    /\ upd \in {[cache |-> EntityFields("old", "old"), provider |-> provider,
                  co |-> [c \in Updaters |-> Outside("")]] : provider \in BOOLEAN}

NextUpdates ==
    \/ \E c \in Updaters, value \in FieldValues, publish \in BOOLEAN :
         UpdateBegins(c, value, publish)
    \/ \E c \in Updaters : PublishEnds(c)

SpecUpdates == InitUpdates /\ [][NextUpdates]_vars

-----------------------------------------------------------------------------
(* Properties *)

Count(seq, x) == Cardinality({i \in 1..Len(seq) : seq[i] = x})

InLoadCall == pc \in {"loading", "initialize"}
\* The for loop of load_plugins is exhausted: the call is about to return.
LoadDone == pc = "loading" /\ idx > Len(to_load)

\* C1: a load_plugins(Y) call never loads a manifest whose timing is not Y;
\* a name is registered by one instance and listed in the load order once,
\* however often its phase or other phases are called; a registered name
\* is never loaded again, its instance stays the one registered first.
C1_Step ==
    /\ \A i \in 1..Len(to_load') : to_load'[i].timing = phase'
    /\ \A n \in DOMAIN plugins' \ DOMAIN plugins : manifests'[n].timing = phase
    /\ \A n \in DOMAIN plugins : n \in DOMAIN plugins' /\ plugins'[n] = plugins[n]
    /\ \A n \in Names : Count(load_order', n) = IF n \in DOMAIN plugins' THEN 1 ELSE 0
    /\ pc = "loading" /\ pc' = "initialize"
         => to_load[idx].timing = phase /\ to_load[idx].name \notin DOMAIN plugins
C1_LoadedOncePerPhase == [][C1_Step]_vars

\* C1 witness: a phase is called again after it registered foo (foo is
\* skipped, its instance is the one of the manifest met now), while a
\* manifest of another phase is on disk and not loaded.
C1_Witness ==
    /\ LoadDone
    /\ \E i \in 1..Len(to_load) :
         /\ outcome[i] = "skipped"
         /\ to_load[i].name \in DOMAIN plugins
         /\ plugins[to_load[i].name].path = to_load[i].path
    /\ \E j \in 1..Len(discovered) :
         /\ discovered[j].timing # phase
         /\ discovered[j].name \notin DOMAIN plugins


\* load of to_load[i] has begun / has finished in the call in progress
Begun(i) == outcome[i] # "pending" \/ (pc = "initialize" /\ idx = i)
Finished(i) == outcome[i] # "pending"

\* C2: within one load_plugins call, of two manifests of the phase the one
\* with the higher priority has finished loading (registered or failed)
\* before the load of the other begins.
C2_PriorityOrder ==
    InLoadCall =>
      \A i, j \in 1..Len(to_load) :
        to_load[i].priority > to_load[j].priority /\ Begun(j) => Finished(i)

\* C2 witness: the directory scan met the lower priority first; the higher
\* one is registered and the initialize hook of the lower one is running.
C2_Witness ==
    /\ pc = "initialize"
    /\ idx = 2
    /\ to_load[1].priority > to_load[2].priority
    /\ to_load[1].path > to_load[2].path
    /\ outcome[1] = "registered"

\* C3: shutdown_all invokes the shutdown hooks in the reverse of the load
\* order, one after the other: the k-th hook it invokes is that of the
\* k-th name from the end, and a hook is invoked only when every hook
\* invoked before it has returned.
C3_ReverseShutdown ==
    pc \in {"shutdown", "shutdown_hook"} =>
      /\ \A k \in 1..Len(sd_log) : sd_log[k] = load_order[Len(load_order) + 1 - k]
      /\ Len(sd_log) = IF pc = "shutdown_hook" THEN sd_pos ELSE sd_pos - 1

\* C3 witness: two plugins were loaded, foo first; shutdown_all has run
\* both hooks, bar's first.
C3_Witness ==
    /\ pc = "shutdown"
    /\ load_order = <<"foo", "bar">>
    /\ sd_log = <<"bar", "foo">>

\* C4: a failure of one manifest's load is caught: load_plugins does not
\* raise, and when its loop ends every manifest of the phase has been
\* handled (skipped as loaded, registered, or failed itself): none is
\* left unattempted behind a failure.
C4_FailureIsolated ==
    /\ raised # "load_plugins"
    /\ LoadDone =>
         \A i \in 1..Len(to_load) :
           /\ outcome[i] \in {"skipped", "registered", "failed"}
           /\ outcome[i] \in {"skipped", "registered"} => to_load[i].name \in DOMAIN plugins

\* C4 witness: the first manifest of the phase failed and the second one
\* is registered when the call returns.
C4_Witness ==
    /\ LoadDone
    /\ Len(to_load) = 2
    /\ outcome = <<"failed", "registered">>
    /\ to_load[2].name \in DOMAIN plugins

\* C5: when initialize raises or the tool scan finds a duplicate tool
\* name, the plugin is not registered: after the failed load its name is
\* in none of the registry, the manifest map and the load order.
C5_FailedNotRegistered ==
    pc = "loading" /\ last_error \in {InitializeError, DuplicateToolError} =>
      LET name == to_load[idx - 1].name
      IN  /\ outcome[idx - 1] = "failed"
          /\ name \notin DOMAIN plugins
          /\ name \notin DOMAIN manifests
          /\ Count(load_order, name) = 0

\* C5 witness: the tool scan of the second manifest found a duplicate
\* tool name, after the first manifest was registered.
C5_Witness ==
    /\ pc = "loading"
    /\ last_error = DuplicateToolError
    /\ idx = 3
    /\ outcome = <<"registered", "failed">>

\* C6: a shutdown hook that raises stops nothing: shutdown_all does not
\* raise, and when its loop ends the hook of every plugin of the load
\* order has been invoked.
C6_BestEffortShutdown ==
    /\ raised # "shutdown_all"
    /\ pc = "shutdown" /\ sd_pos > Len(load_order) =>
         \A i \in 1..Len(load_order) : Count(sd_log, load_order[i]) = 1

\* C6 witness: the hook invoked first raised, and the other plugin's hook
\* was invoked after it.
C6_Witness ==
    /\ pc = "shutdown"
    /\ sd_pos > Len(load_order)
    /\ Len(load_order) = 2
    /\ load_order[2] \in sd_errors
    /\ sd_log = <<load_order[2], load_order[1]>>

TimingRank(t) == IF t = PRE_INIT THEN 1 ELSE IF t = DEFAULT THEN 2 ELSE 3

\* C7: while the load_plugins calls made are those of the host's lifespan
\* in its order (PRE_INIT, then DEFAULT, then AFTER_INIT), the load order
\* lists pre-init plugins before default ones before after-init ones.
C7_PhaseOrder ==
    startup # "off" =>
      \A i, j \in 1..Len(load_order) :
        i < j => TimingRank(manifests[load_order[i]].timing)
                   <= TimingRank(manifests[load_order[j]].timing)

\* C7 witness: bar (default) is scanned before foo (pre-init); after the
\* pre-init and the default phase the load order is [foo, bar].
C7_Witness ==
    /\ startup = DEFAULT
    /\ load_order = <<"foo", "bar">>
    /\ manifests["foo"].timing = PRE_INIT
    /\ manifests["bar"].timing = DEFAULT
    /\ manifests["bar"].path < manifests["foo"].path


\* C8: a manifest whose entry in the central configuration file has
\* enabled = false is not in the output of discover_plugins and is never
\* registered.
C8_DisabledExcluded ==
    config.exists =>
      /\ InLoadCall =>
           \A i \in 1..Len(discovered) : config.plugins[discovered[i].name].enabled
      /\ \A n \in DOMAIN plugins : config.plugins[n].enabled

\* C9: of two manifests that share a name the one registered first wins:
\* the registered instance and manifest of a name never change, and a
\* manifest whose name is registered is skipped, without the loader
\* looking at its directory (no module executed, no instance, no
\* initialize).
C9_Step ==
    /\ \A n \in DOMAIN plugins :
         /\ n \in DOMAIN plugins'
         /\ plugins'[n] = plugins[n]
         /\ manifests'[n] = manifests[n]
    /\ pc = "loading" /\ idx <= Len(to_load) /\ to_load[idx].name \in DOMAIN plugins
         => /\ outcome'[idx] = "skipped"
            /\ code_unit' = NotLooked
            /\ instance' = NoInstance
            /\ pc' = "loading"
            /\ UNCHANGED registry
C9_FirstRegisteredWins == [][C9_Step]_vars

\* C9 witness: a manifest is skipped because another manifest (another
\* directory) of the same name is registered.
C9_Witness ==
    /\ LoadDone
    /\ \E i \in 1..Len(to_load) :
         /\ outcome[i] = "skipped"
         /\ plugins[to_load[i].name].path # to_load[i].path
         /\ manifests[to_load[i].name].path # to_load[i].path

\* C10: when the plugin's directory holds neither the entry_point file
\* nor __init__.py, or its module defines no plugin class, a ui manifest is
\* instantiated as the built-in UiPlugin and registered, and a manifest
\* of another type fails (FileNotFoundError, resp. ValueError) and is not
\* registered.
C10_UiFallback ==
    code_unit \in {NoCodeUnit, NoPluginClass} =>
      /\ pc = "initialize" =>
           to_load[idx].type = UI /\ instance.class = UiPluginClass.name
      /\ pc = "loading" =>
           LET m == to_load[idx - 1]
           IN  IF m.type = UI
               THEN /\ outcome[idx - 1] = "registered"
                    /\ m.name \in DOMAIN plugins
                    /\ plugins[m.name] = [class |-> "UiPlugin", path |-> m.path,
                                          tools |-> <<>>]
                    /\ manifests[m.name] = m
               ELSE /\ outcome[idx - 1] = "failed"
                    /\ last_error = IF code_unit = NoCodeUnit
                                    THEN FileNotFoundError ELSE NoPluginClassError
                    /\ m.name \notin DOMAIN plugins

\* C10 witness: a ui manifest without code is registered as UiPlugin, and
\* the core manifest after it, whose directory is empty too, has failed.
C10_Witness ==
    /\ pc = "loading"
    /\ idx = 3
    /\ outcome = <<"registered", "failed">>
    /\ to_load[1].type = UI
    /\ plugins[to_load[1].name].class = "UiPlugin"
    /\ to_load[2].type = CORE
    /\ code_unit = NoCodeUnit
    /\ last_error = FileNotFoundError


\* C11: a code unit with more than one eligible plugin class (a subclass of
\* Plugin that is none of the base roles) is a hard failure for its
\* manifest: no class of it is instantiated and the plugin is not
\* registered.
C11_SingleEligibleClass ==
    code_unit = ManyPluginClasses =>
      /\ pc # "initialize"
      /\ pc = "loading" =>
           /\ outcome[idx - 1] = "failed"
           /\ to_load[idx - 1].name \notin DOMAIN plugins

\* A document json gives back as it was: every key a str, every value a
\* str, an int, a bool, None or a list of such.
IsJsonDocument(doc) ==
    \A i \in 1..Len(doc) :
      /\ doc[i].k.t = "str"
      /\ doc[i].v.t \in {"str", "int", "bool", "none", "list"}
      /\ \A n \in 1..Len(doc[i].v.items) :
           doc[i].v.items[n].t \in {"str", "int", "bool", "none"}

\* the pair a get was called on
Asked == <<db_op.collection, db_op.key>>

\* C12 as stated: get(c, k) returns the document last set for (c, k),
\* whatever JSON-serializable document that was and whatever was written
\* to other keys and collections, and absent for a pair never set or
\* removed.
C12_RoundTrip ==
    db_op.name = "get" =>
      /\ written[Asked].state = "set" => db_op.ret = Some(written[Asked].doc)
      /\ written[Asked].state = "absent" => db_op.ret = None

\* C12, amended: get(c, k) returns the JSON image of the document last set
\* for (c, k), which is that document itself when its keys are strings
\* and it holds no tuple, whatever was written to other keys and
\* collections; and absent for a pair never set or removed.
C12_RoundTripJson ==
    db_op.name = "get" =>
      /\ written[Asked].state = "set" =>
           /\ db_op.ret.found
           /\ IsJsonDocument(db_op.ret.doc)
           /\ IsJsonDocument(written[Asked].doc) => db_op.ret.doc = written[Asked].doc
           /\ written[Asked].doc = DocTuple => db_op.ret.doc = DocList
           /\ written[Asked].doc = DocIntKey =>
                db_op.ret.doc = <<Entry(PyStr("1"), Scalar(PyStr("x")))>>
      /\ written[Asked].state = "absent" => db_op.ret = None

\* C12 witness: get returns the list document set last for (c1, k1), after
\* another document was set for it, while the other key of c1 holds
\* another document and the same key of c2 was set and removed.
C12_Witness ==
    /\ db_op.name = "get"
    /\ Asked = <<"c1", "k1">>
    /\ written[<<"c1", "k1">>] = Written(DocList)
    /\ written[<<"c1", "k2">>] = Written(DocPlain)
    /\ written[<<"c2", "k1">>] = NotWritten
    /\ <<"c2", "k2">> \in DOMAIN rows
    /\ db_op.ret = Some(DocList)

\* the documents json.dumps raises on
NotSerializable == {DocSet, DocListOfSet}

\* C13: a set with a document that is not JSON-serializable raises
\* TypeError and leaves every row as it was, so that get still returns the
\* previous value of every pair; a get on a row whose text is corrupted
\* returns absent and does not raise.
C13_Step ==
    /\ db_op'.name = "set" /\ db_op'.data \in NotSerializable =>
         /\ db_op'.raised = "TypeError"
         /\ rows' = rows
         /\ \A cell \in Cells : get(rows', cell[1], cell[2]) = get(rows, cell[1], cell[2])
    /\ db_op'.name = "set" /\ db_op'.data \notin NotSerializable =>
         db_op'.raised = "none"
    /\ db_op'.name = "get"
         /\ <<db_op'.collection, db_op'.key>> \in DOMAIN rows
         /\ ~rows[<<db_op'.collection, db_op'.key>>].valid =>
         db_op'.ret = None /\ db_op'.raised = "none"
C13_StoreErrors == [][C13_Step]_vars

\* C13 witness: a set of a set-valued document has raised TypeError on a
\* pair that holds a document, while another row is corrupted.
C13_Witness ==
    /\ db_op.name = "set"
    /\ db_op.data = DocSet
    /\ db_op.raised = "TypeError"
    /\ written[Asked] = Written(DocPlain)
    /\ get(rows, db_op.collection, db_op.key) = Some(DocPlain)
    /\ \E cell \in Cells : written[cell] = Corrupted


(* The caching managers *)

\* the call made in this step, by name
Made(name) == mgr_op'.name = name

\* what an unscoped get_entity(base) returns from that table
Unscoped(table, base) ==
    get_entity(table, EntityUri(base, NoVersion), FALSE, Nothing, Nothing, <<>>).ret

\* the versions stored under the base URI
CachedVersions(table, base) == Ids(Unscoped(table, base).versions)

\* C14: adding an entity under a URI evicts no version cached under it
\* before: after add_entity the unscoped get_entity returns the versions
\* that were cached and the versions that were added.
C14_Step ==
    Made("add_entity") =>
      CachedVersions(rows, mgr_op'.args.key) \cup Ids(mgr_op'.args.versions)
        \subseteq CachedVersions(rows', mgr_op'.args.key)
C14_VersionUnion == [][C14_Step]_vars


\* C15: a version-qualified get_entity returns not-found or an entity
\* with exactly the version asked for; it creates no cache row of its own
\* and removes no version stored under the base URI.
C15_Step ==
    Made("get_entity") /\ mgr_op'.args.version # NoVersion =>
      /\ mgr_op'.ret.found => mgr_op'.ret.versions = <<mgr_op'.args.version>>
      /\ DOMAIN rows' \subseteq DOMAIN rows \cup {<<ENTITIES_CACHE, mgr_op'.args.key>>}
      /\ CachedVersions(rows, mgr_op'.args.key)
           \subseteq CachedVersions(rows', mgr_op'.args.key)
C15_VersionFilterView == [][C15_Step]_vars

\* its two halves, each violated on its own
C15_ReturnsOneVersion ==
    [][Made("get_entity") /\ mgr_op'.args.version # NoVersion /\ mgr_op'.ret.found
         => mgr_op'.ret.versions = <<mgr_op'.args.version>>]_vars
C15_EvictsNothing ==
    [][Made("get_entity") /\ mgr_op'.args.version # NoVersion
         => CachedVersions(rows, mgr_op'.args.key)
              \subseteq CachedVersions(rows', mgr_op'.args.key)]_vars


Reads == {"get_project", "get_secret", "get_entity"}

\* the cache row a call reads or writes
CacheCell(op) ==
    IF op.name \in {"get_project", "create_project"}
    THEN <<PROJECTS_CACHE, op.args.key>>
    ELSE IF op.name \in {"get_secret", "set_secret"}
    THEN <<SECRETS_CACHE, _make_cache_key(op.args.key, op.args.scope, op.args.project)>>
    ELSE <<ENTITIES_CACHE, op.args.key>>

\* The call before this one was a read that found a value, and its row is
\* in the cache; this call is the same read again.
RepeatedRead ==
    /\ mgr_op.name \in Reads
    /\ mgr_op.ret.found
    /\ CacheCell(mgr_op) \in DOMAIN rows
    /\ mgr_op'.name = mgr_op.name
    /\ mgr_op'.args = mgr_op.args

\* The call before this one wrote a value, and this one reads it back.
ReadBack ==
    \/ /\ mgr_op.name = "add_entity"
       /\ Made("get_entity")
       /\ mgr_op'.args.key = mgr_op.args.key
       /\ mgr_op'.args.version \in {NoVersion} \cup Ids(mgr_op.args.versions)
    \/ /\ mgr_op.name = "create_project" /\ ~mgr_op.raised
       /\ Made("get_project")
       /\ mgr_op'.args.key = mgr_op.args.key
    \/ /\ mgr_op.name = "set_secret" /\ mgr_op.ret = True
       /\ Made("get_secret")
       /\ CacheCell(mgr_op') = CacheCell(mgr_op)

\* C16: a read repeated after a read that found a value and populated the
\* cache makes no provider call, and a value written by add_entity,
\* create_project or set_secret is read back without a provider call.
C16_Step == RepeatedRead \/ ReadBack => mgr_op'.calls = <<>>
C16_CacheHitSkipsProvider == [][C16_Step]_vars

\* the same of every read but the repeated version-qualified get_entity
C16_Unversioned ==
    [][(RepeatedRead /\ mgr_op'.args.version = NoVersion) \/ ReadBack
         => mgr_op'.calls = <<>>]_vars


\* whether the manager that made the call has a provider
HasProvider(op) ==
    IF op.name = "get_secret" THEN providers.secret ELSE providers.project

\* what the read returns from that table when nothing but the cache answers
Reread(table, op) ==
    IF op.name = "get_project"
    THEN get_project(table, op.args.key, FALSE, Nothing, Nothing, <<>>).ret
    ELSE IF op.name = "get_secret"
    THEN get_secret(table, op.args.key, op.args.scope, op.args.project,
                    FALSE, Nothing, "", <<>>).ret
    ELSE get_entity(table, EntityUri(op.args.key, op.args.version),
                    FALSE, Nothing, Nothing, <<>>).ret

\* the read about to be made finds nothing in the cache
Miss(op) == op.name \in Reads /\ ~Reread(rows, op).found

\* the row is cached, the version asked for is not in it
LacksVersion(op) ==
    /\ op.name = "get_entity"
    /\ op.args.version # NoVersion
    /\ Unscoped(rows, op.args.key).found

\* the provider calls a read may make on a miss
MissCalls(op) ==
    IF op.name = "get_project"
    THEN IF op.ret.found
         THEN {<<"fetch_project", "prefetch_entities_for_project">>}
         ELSE {<<"fetch_project">>}
    ELSE IF op.name = "get_secret"
    THEN {<<"get_secret">>}
    ELSE IF LacksVersion(op)
    THEN IF op.ret.found
         THEN {<<"get_version", "get_entity">>}
         ELSE {<<"get_version">>, <<"get_version", "get_entity">>}
    ELSE {<<"get_entity">>}

\* the value came from os.environ
FromEnviron(op) ==
    /\ op.name = "get_secret"
    /\ op.args.scope = USER
    /\ op.args.key \in DOMAIN environ
    /\ op.ret.value = environ[op.args.key]

\* what the read returned is in the cache after it
WrittenBack(op) ==
    IF op.name = "get_entity"
    THEN /\ Unscoped(rows', op.args.key).found
         /\ Ids(op.ret.versions) \subseteq CachedVersions(rows', op.args.key)
    ELSE Reread(rows', op) = op.ret

\* C17 as stated: on a cache miss with a provider, a read makes exactly
\* one provider call, and what it found is in the cache when it returns.
C17_ExactlyOneCall ==
    [][Miss(mgr_op') /\ HasProvider(mgr_op') =>
         /\ Len(mgr_op'.calls) = 1
         /\ mgr_op'.ret.found /\ ~FromEnviron(mgr_op') => WrittenBack(mgr_op')]_vars

\* C17, amended: on a cache miss with a provider, a read asks the provider
\* for the item once: fetch_project, get_secret or get_entity; get_project
\* follows a project it found with one prefetch_entities_for_project, and
\* a get_entity for a version the cached row lacks asks get_version first
\* and get_entity only if the version exists.  What the read found is in
\* the cache when it returns.
C17_Step ==
    Miss(mgr_op') /\ HasProvider(mgr_op') =>
      /\ mgr_op'.calls \in MissCalls(mgr_op')
      /\ mgr_op'.ret.found /\ ~FromEnviron(mgr_op') => WrittenBack(mgr_op')
C17_MissFetchesOnce == [][C17_Step]_vars

\* get_project has missed, fetched the project and prefetched its
\* entities, and the project is in the cache.
C17_Witness ==
    /\ mgr_op.name = "get_project"
    /\ mgr_op.calls = <<"fetch_project", "prefetch_entities_for_project">>
    /\ mgr_op.ret.found
    /\ <<PROJECTS_CACHE, mgr_op.args.key>> \in DOMAIN rows


\* The read made in this step asked the provider and got no value from it:
\* the provider raised, or the read has nothing to return.
ProviderFailed ==
    /\ mgr_op'.name \in Reads
    /\ mgr_op'.calls # <<>>
    /\ mgr_op'.raised \/ ~mgr_op'.ret.found

\* C18: when the provider call of a read returns nothing or raises, the
\* read returns not-found, raises nothing, and leaves the cache as it was.
C18_Step == ProviderFailed => ~mgr_op'.raised /\ rows' = rows
C18_ProviderFailureRecoverable == [][C18_Step]_vars

\* the half about a provider that returns nothing
C18_NothingFound ==
    [][ProviderFailed /\ ~mgr_op'.raised => rows' = rows]_vars


(* SecretManager *)

\* what get_secret returns for the secret of that call, from the cache alone
CachedSecret(table, args) ==
    get_secret(table, args.key, args.scope, args.project, FALSE, Nothing, "", <<>>).ret

\* a provider that rejects: set_secret returns False and writes nothing
RejectedLeavesCache ==
    \A id \in SecretIds, value \in SecretValues :
      \E result \in {set_secret(rows, id.key, value, id.scope, id.project,
                                TRUE, Rejected)} :
        result.ret = False /\ result.rows = rows

\* C19: with a provider, set_secret asks the provider and writes the cache
\* only when the provider accepted; when the provider rejects it returns
\* False and the cache is unchanged.  Without a provider it writes the
\* cache and returns True.
C19_Step ==
    /\ RejectedLeavesCache
    /\ Made("set_secret") =>
         /\ providers.secret => mgr_op'.calls = <<"set_secret">>
         /\ mgr_op'.ret # True => rows' = rows
         /\ mgr_op'.ret = True =>
              CachedSecret(rows', mgr_op'.args) = Returned(mgr_op'.args.value, <<>>)
         /\ ~providers.secret => mgr_op'.calls = <<>> /\ mgr_op'.ret = True
C19_SecretWriteThrough == [][C19_Step]_vars

\* The provider has rejected a value for a secret the cache holds another
\* value of; the cache still holds that other value.
C19_Witness ==
    /\ mgr_op.name = "set_secret"
    /\ providers.secret
    /\ mgr_op.ret = False
    /\ CachedSecret(rows, mgr_op.args).found
    /\ CachedSecret(rows, mgr_op.args).value # mgr_op.args.value


\* the secret a call is about
CalledSecret(op) == SecretId(op.args.key, op.args.scope, op.args.project)

\* what the cache holds for the secret of that id
Stored(table, id) == CachedSecret(table, id)

\* C20: secrets are stored per (key, scope, project).  A set_secret or a
\* get_secret changes what is stored for no other secret; a value set is
\* what the cache then holds for that secret; and get_secret for a project
\* under which nothing is stored, the provider giving nothing, returns None
\* whatever is stored for the USER scope or for other projects.
C20_Step ==
    Made("set_secret") \/ Made("get_secret") =>
      /\ \A other \in SecretIds \ {CalledSecret(mgr_op')} :
           Stored(rows', other) = Stored(rows, other)
      /\ Made("set_secret") /\ mgr_op'.ret = True =>
           Stored(rows', CalledSecret(mgr_op')) = Returned(mgr_op'.args.value, <<>>)
      /\ Made("get_secret") /\ Stored(rows, CalledSecret(mgr_op')).found =>
           mgr_op'.ret = Stored(rows, CalledSecret(mgr_op'))
      /\ /\ Made("get_secret")
         /\ mgr_op'.args.scope = PROJECT
         /\ ~Stored(rows, CalledSecret(mgr_op')).found
         /\ rows' = rows
         => ~mgr_op'.ret.found
C20_SecretScoping == [][C20_Step]_vars

\* K1 holds one value for the user and another for project p1, and
\* get_secret(K1, PROJECT, p2) has returned None.
C20_Witness ==
    /\ Stored(rows, SecretId("K1", USER, NoProject)).found
    /\ Stored(rows, SecretId("K1", PROJECT, "p1")).found
    /\ Stored(rows, SecretId("K1", USER, NoProject))
         # Stored(rows, SecretId("K1", PROJECT, "p1"))
    /\ mgr_op.name = "get_secret"
    /\ CalledSecret(mgr_op) = SecretId("K1", PROJECT, "p2")
    /\ ~mgr_op.ret.found
    /\ ~mgr_op.raised


\* C21: get_secret looks in the cache, then asks the provider, then, for
\* the USER scope only, reads the environment variable named by the key.
\* A cached value is returned without a provider call; a value the
\* provider gives is returned whatever the environment holds; a
\* PROJECT-scoped lookup returns no environment value.
C21_Step ==
    Made("get_secret") =>
      \E id \in {CalledSecret(mgr_op')} :
        /\ Stored(rows, id).found =>
             mgr_op'.ret = Stored(rows, id) /\ mgr_op'.calls = <<>> /\ rows' = rows
        /\ ~Stored(rows, id).found =>
             /\ mgr_op'.calls = IF providers.secret THEN <<"get_secret">> ELSE <<>>
             /\ rows' # rows => mgr_op'.ret = Stored(rows', id)
             /\ rows' = rows /\ ~mgr_op'.raised =>
                  mgr_op'.ret = IF id.scope = USER /\ id.key \in DOMAIN environ
                                THEN Returned(environ[id.key], <<>>)
                                ELSE NotFound
        /\ id.scope = PROJECT /\ mgr_op'.ret.found => mgr_op'.ret.value # EnvValue
C21_SecretResolutionOrder == [][C21_Step]_vars

\* A USER-scoped get_secret has missed the cache, asked the provider in
\* vain, and returned the environment variable.
C21_Witness ==
    /\ mgr_op.name = "get_secret"
    /\ mgr_op.args.scope = USER
    /\ providers.secret
    /\ mgr_op.calls = <<"get_secret">>
    /\ mgr_op.ret = Returned(EnvValue, <<>>)


(* ProjectManager *)

\* the projects of a list, as a set
ProjectsOf(list) == {list[i] : i \in 1..Len(list)}

\* the projects in the cache
CachedProjectSet(table) ==
    {Project(name, get_project(table, name, FALSE, Nothing, Nothing, <<>>).ret.value) :
       name \in {n \in ProjectNames :
                   get_project(table, n, FALSE, Nothing, Nothing, <<>>).ret.found}}

\* Whatever the cache holds, list_projects with a provider returns the
\* provider's list after one fetch_projects, and each project of the list
\* is then read by get_project without a provider call.
ListsFromProvider ==
    \A fetched \in FetchedProjects, order \in RowOrders :
      \E result \in {list_projects(rows, TRUE, Found, fetched, order)} :
        /\ result.ret = Listed(fetched)
        /\ result.calls = <<"fetch_projects">>
        /\ \A project \in ProjectsOf(fetched) :
             \E read \in {get_project(result.rows, project.name, TRUE, Raises,
                                      Raises, <<>>)} :
               /\ read.calls = <<>>
               /\ read.ret = Returned(project.path, <<>>)

\* Without a provider list_projects returns the cached projects, each once.
ListsFromCache ==
    \A order \in RowOrders :
      \E result \in {list_projects(rows, FALSE, Nothing, <<>>, order)} :
        /\ ProjectsOf(result.ret.projects) = CachedProjectSet(rows)
        /\ Len(result.ret.projects) = Cardinality(CachedProjectSet(rows))
        /\ result.calls = <<>>
        /\ result.rows = rows

\* C22: with a provider every list_projects makes one bulk fetch, returns
\* the provider's list and caches each project of it, so that a get_project
\* of a listed name makes no provider call; without a provider it returns
\* exactly the cached projects.
C22_Step ==
    /\ ListsFromProvider
    /\ ListsFromCache
    /\ Made("list_projects") =>
         /\ mgr_op'.calls = IF providers.project THEN <<"fetch_projects">> ELSE <<>>
         /\ ~mgr_op'.raised =>
              ProjectsOf(mgr_op'.ret.projects) \subseteq CachedProjectSet(rows')
    /\ mgr_op.name = "list_projects" /\ ~mgr_op.raised /\ Made("get_project")
         /\ mgr_op'.args.key \in {project.name : project \in ProjectsOf(mgr_op.ret.projects)}
         => mgr_op'.calls = <<>> /\ mgr_op'.ret.found
C22_ListProjects == [][C22_Step]_vars

\* With a project created locally in the cache, list_projects has fetched
\* both projects from the provider, and both are cached as fetched.
C22_Witness ==
    /\ mgr_op.name = "list_projects"
    /\ providers.project
    /\ Len(mgr_op.ret.projects) = 2
    /\ CachedProjectSet(rows) = ProjectsOf(mgr_op.ret.projects)


(* EntityManager *)

VersionedUris == {uri \in Uris : uri.version # NoVersion}

\* the version of that URI is not in the cache
VersionMissing(table, uri) ==
    ~get_entity(table, uri, FALSE, Nothing, Nothing, <<>>).ret.found

\* get_entity(uri), the provider having the version but no entity, returns
\* and caches the one-version entity, and the same lookup is then served
\* from the cache.
SynthesizesMinimal(table, uri) ==
    \E result \in {get_entity(table, uri, TRUE, Found, Nothing, <<>>)} :
      /\ result.ret = Returned(uri.base, <<uri.version>>)
      /\ uri.version \in CachedVersions(result.rows, uri.base)
      /\ \E again \in {get_entity(result.rows, uri, TRUE, Raises, Raises, <<>>)} :
           again.calls = <<>> /\ again.ret = result.ret

\* C23: when a version-qualified get_entity misses and the provider has
\* the version but no entity, the minimal entity with that version is
\* cached under the base URI and returned, and the next lookup of the
\* version makes no provider call.
C23_MinimalEntity ==
    \A uri \in VersionedUris :
      VersionMissing(rows, uri) => SynthesizesMinimal(rows, uri)

\* the same where the entity is cached without the version
C23_RowLacksVersion ==
    \A uri \in VersionedUris :
      VersionMissing(rows, uri) /\ Unscoped(rows, uri.base).found
        => SynthesizesMinimal(rows, uri)


\* the call has emitted that event once and nothing else, the entity being
\* in the cache as emitted
EmittedOnce(op, name) ==
    /\ Len(op.events) = 1
    /\ op.events[1].name = name
    /\ op.events[1].uri = op.args.key
    /\ op.events[1].cached

\* the entity update_entity is called on is in the cache
Existing(op) ==
    get_entity(rows, EntityUri(op.args.key, op.args.version),
               FALSE, Nothing, Nothing, <<>>).ret.found

\* C24: every add_entity emits entity.added and every update_entity of an
\* existing entity emits entity.updated, once, after the cache write,
\* whether publish was not asked for, succeeded or failed.
C24_Step ==
    /\ Made("add_entity") => EmittedOnce(mgr_op', "entity.added")
    /\ Made("update_entity") /\ Existing(mgr_op') =>
         EmittedOnce(mgr_op', "entity.updated")
C24_EntityEvents == [][C24_Step]_vars

\* the same of the calls that return
C24_UnlessPublishRaises ==
    [][/\ Made("add_entity") /\ ~mgr_op'.raised =>
            EmittedOnce(mgr_op', "entity.added")
       /\ Made("update_entity") /\ Existing(mgr_op') /\ ~mgr_op'.raised =>
            EmittedOnce(mgr_op', "entity.updated")
       /\ mgr_op'.raised => mgr_op'.events = <<>>]_vars


\* the dependency of the call is declared by the version asked for
Declared(op) ==
    op.args.version \in Ids(op.args.versions) /\ op.args.project = op.args.version

\* C25: resolve_dependencies maps each dependency it can resolve to the
\* entity of that URI with the declared version only; when version_id is
\* not a version of the entity it returns the empty map, raises nothing
\* and looks nothing up.
C25_Step ==
    Made("resolve_dependencies") =>
      /\ mgr_op'.args.version \notin Ids(mgr_op'.args.versions) =>
           /\ mgr_op'.ret = Resolved(<<>>)
           /\ ~mgr_op'.raised
           /\ mgr_op'.calls = <<>>
           /\ rows' = rows
      /\ ~mgr_op'.raised =>
           \A i \in 1..Len(mgr_op'.ret.resolved) :
             /\ Declared(mgr_op')
             /\ mgr_op'.ret.resolved[i]
                  = Returned(mgr_op'.args.key, <<mgr_op'.args.value>>)
C25_ResolveDependencies == [][C25_Step]_vars

\* the same where the dependency is in the cache with the declared version
C25_CachedDependency ==
    [][Made("resolve_dependencies") =>
         /\ mgr_op'.args.version \notin Ids(mgr_op'.args.versions) =>
              /\ mgr_op'.ret = Resolved(<<>>)
              /\ ~mgr_op'.raised
              /\ mgr_op'.calls = <<>>
              /\ rows' = rows
         /\ Declared(mgr_op')
              /\ mgr_op'.args.value \in CachedVersions(rows, mgr_op'.args.key) =>
              /\ mgr_op'.ret
                   = Resolved(<<Returned(mgr_op'.args.key, <<mgr_op'.args.value>>)>>)
              /\ mgr_op'.calls = <<>>]_vars

\* the emit call has returned to the emitter
EmitReturned == em_pc = "returned"
HasLog(kind, func) == \E k \in 1..Len(ev_log) : ev_log[k] = LogEntry(kind, func)

\* C26: emit never raises; once it has returned, every handler that raised
\* during the emission is in what emit passed to log_manager.error, and
\* every listener of its list was invoked: it has a task, or its call
\* raised in the loop and was logged.
C26_EmitIsolatesFailures ==
    /\ em_pc # "raised"
    /\ EmitReturned =>
         /\ \A i \in 1..Len(tasks) :
              tasks[i].status = "raised" => HasLog("in", tasks[i].func)
         /\ \A reg \in 1..Len(em_list) :
              \/ \E i \in 1..Len(tasks) : tasks[i].reg = reg
              \/ HasLog("preparing", em_list[reg].func)

\* What holds of C26: emit never raises, the failure of a handler emit
\* awaits is logged by the time emit returns, and no listener is left out.
C26_AwaitedFailuresLogged ==
    /\ em_pc # "raised"
    /\ EmitReturned =>
         /\ \A i \in Awaited(tasks) :
              /\ tasks[i].status # "scheduled"
              /\ tasks[i].status = "raised" => HasLog("in", tasks[i].func)
         /\ \A reg \in 1..Len(em_list) :
              \/ \E i \in 1..Len(tasks) : tasks[i].reg = reg
              \/ HasLog("preparing", em_list[reg].func)

\* the step in which emit returns to the emitter
Returns == em_pc # "returned" /\ em_pc' = "returned"
Stepped(name) == ev_op'.name = name
TasksOf(created, reg) == {i \in 1..Len(created) : created[i].reg = reg}
FireAndForget(created) == {i \in 1..Len(created) : created[i].fire_and_forget}

\* every listener the loop met was called once, and emit returns only once
\* the handlers it awaits have run
OncePerRegistration ==
    /\ \A reg \in 1..Len(em_list') :
         \/ Cardinality(TasksOf(tasks', reg)) = 1
         \/ TasksOf(tasks', reg) = {} /\ HasLog("preparing", em_list'[reg].func)
    /\ \A i \in Awaited(tasks') : tasks'[i].status # "scheduled"

\* C29 as stated: emit invokes each listener once per registration and
\* returns only after every listener not marked fire-and-forget has
\* completed; it returns before any fire-and-forget listener completes;
\* a handler is not invoked after off(event, handler).
C29_ClaimedStep ==
    /\ Returns =>
         /\ OncePerRegistration
         /\ \A i \in FireAndForget(tasks') : tasks'[i].status = "scheduled"
    /\ Stepped("dispatch") \/ Stepped("run") =>
         ev_op'.handler \in Funcs(listeners)
C29_EmitOrder == [][C29_ClaimedStep]_vars

\* C29, amended: emit invokes each listener once per registration and
\* returns only after every listener not marked fire-and-forget has
\* completed; it does not wait for a fire-and-forget listener, which is
\* still to run when emit returns without having been suspended; off
\* removes every registration of the handler, and an emit called later
\* goes through the list off left, so it invokes no handler outside it.
C29_Step ==
    /\ Returns =>
         /\ OncePerRegistration
         /\ Awaited(tasks') = {} /\ ev_log' = <<>> =>
              \A i \in FireAndForget(tasks') : tasks'[i].status = "scheduled"
    /\ Stepped("off") => ev_op'.handler \notin Funcs(listeners')
    /\ Stepped("emit") => em_list' = listeners
    /\ Stepped("dispatch") \/ Stepped("run") =>
         ev_op'.handler \in Funcs(em_list)
C29_EmitAwaitsOnlyAwaited == [][C29_Step]_vars

\* C29 witness: emit has returned, a handler it awaited has run, a
\* fire-and-forget handler of the same emission has not.
C29_Witness ==
    /\ EmitReturned
    /\ \E i \in Awaited(tasks) : tasks[i].status # "scheduled"
    /\ \E i \in FireAndForget(tasks) : tasks[i].status = "scheduled"

\* emit has returned after a fire-and-forget handler of the emission ran
C29_RanBeforeReturn ==
    /\ EmitReturned
    /\ ev_op.name = "return"
    /\ \E i \in FireAndForget(tasks) : tasks[i].status # "scheduled"

(* ProjectManager: create_project, delete_project *)

\* what a get_project(name) on that cache returns when no provider answers
ReadProject(table, name, has_provider) ==
    get_project(table, name, has_provider, Nothing, Raises, <<>>)

\* C28: create_project of a name the project cache holds raises and leaves
\* the cache as it was; of an absent name it returns the project and caches
\* it, so that the get_project that follows returns it without a provider
\* call; without a provider, the get_project that follows delete_project of
\* the name finds nothing.
C28_Step ==
    /\ Made("create_project") =>
         IF Truthy(get(rows, PROJECTS_CACHE, mgr_op'.args.key))
         THEN mgr_op'.raised /\ rows' = rows
         ELSE /\ ~mgr_op'.raised
              /\ mgr_op'.ret = Returned(LocalPath, <<>>)
              /\ ReadProject(rows', mgr_op'.args.key, providers.project).ret = mgr_op'.ret
              /\ ReadProject(rows', mgr_op'.args.key, providers.project).calls = <<>>
    /\ mgr_op.name = "create_project" /\ ~mgr_op.raised /\ Made("get_project")
         /\ mgr_op'.args.key = mgr_op.args.key
         => mgr_op'.ret = mgr_op.ret /\ mgr_op'.calls = <<>>
    /\ Made("delete_project") /\ ~providers.project =>
         ReadProject(rows', mgr_op'.args.key, FALSE).ret = NotFound
    /\ mgr_op.name = "delete_project" /\ ~providers.project /\ Made("get_project")
         /\ mgr_op'.args.key = mgr_op.args.key
         => mgr_op'.ret = NotFound
C28_CreateAndDelete == [][C28_Step]_vars

\* C28 witness: create_project has raised for a project that was fetched
\* from the provider, and the cache still serves the fetched one.
C28_Witness ==
    /\ mgr_op.name = "create_project"
    /\ mgr_op.raised
    /\ ReadProject(rows, mgr_op.args.key, TRUE).ret = Returned(RemotePath, <<>>)

(* discover_plugins and load_plugins under the central configuration *)

\* the configuration enables the plugin and gives it a timing PluginTiming
\* accepts / a timing it rejects
Overridden(name) ==
    /\ config.exists
    /\ config.plugins[name].enabled
    /\ config.plugins[name].timing # {}
    /\ Only(config.plugins[name].timing) \in PluginTiming
TimingRejected(name) ==
    /\ config.exists
    /\ config.plugins[name].enabled
    /\ config.plugins[name].timing # {}
    /\ Only(config.plugins[name].timing) \notin PluginTiming

\* The manifest scanned at position j is in to_load exactly in the phase
\* the configuration gives its plugin, with the timing and the priority of
\* the configuration.
LoadsInOverriddenPhase(j) ==
    LET entry == config.plugins[disk[j].name]
    IN  /\ (\E i \in 1..Len(to_load) : to_load[i].path = j)
             <=> phase = Only(entry.timing)
        /\ \A i \in 1..Len(to_load) : to_load[i].path = j =>
              /\ to_load[i].timing = Only(entry.timing)
              /\ entry.priority # {} => to_load[i].priority = Only(entry.priority)

\* C30: a plugin to which the central configuration gives a timing
\* override is loaded by the load_plugins call of that phase and by no
\* other, whatever its manifest declares, and takes its place in that
\* phase by the priority of the configuration.
C30_OverridesTakeEffect ==
    InLoadCall =>
      /\ \A j \in 1..Len(disk) :
           Overridden(disk[j].name) => LoadsInOverriddenPhase(j)
      /\ \A i, k \in 1..Len(to_load) :
           i < k => to_load[i].priority >= to_load[k].priority

\* What holds of C30: the same for every plugin whose manifest the overlay
\* loop reaches, that is when no manifest scanned before it has an entry
\* whose timing PluginTiming rejects.
C30_UnlessLoopRaisedBefore ==
    InLoadCall =>
      /\ \A j \in 1..Len(disk) :
           /\ Overridden(disk[j].name)
           /\ \A k \in 1..(j - 1) : ~TimingRejected(disk[k].name)
           => LoadsInOverriddenPhase(j)
      /\ \A i, k \in 1..Len(to_load) :
           i < k => to_load[i].priority >= to_load[k].priority

\* a manifest declared default with priority 0 is loaded in the after-init
\* phase, ahead of a manifest of priority 0 scanned before it
C30_OverrideApplied ==
    /\ InLoadCall
    /\ phase = AFTER_INIT
    /\ Len(to_load) = MaxManifests
    /\ to_load[1].path > to_load[MaxManifests].path
    /\ Overridden(to_load[1].name)
    /\ disk[to_load[1].path].timing = DEFAULT
    /\ disk[to_load[1].path].priority < to_load[1].priority

(* AgentManager *)

\* the coroutines inside `async with self.lock`
InLocked(position) == {c \in Coroutines : position[c].pc = "running"}

\* C27: at most one coroutine is inside its locked section, and the tool
\* list and the agent change only in a step of a coroutine that found the
\* lock free and took it, no coroutine being inside its locked section:
\* never while a run_agent is suspended in the agent run.
C27_Step ==
    /\ Cardinality(InLocked(co')) <= 1
    /\ InLocked(co') # {} => locked'
    /\ tools' # tools \/ agent' # agent =>
         /\ InLocked(co) = {}
         /\ ~locked
C27_Serialized == [][C27_Step]_vars

\* C27 witness: a run_agent is suspended in the agent run while a
\* register_tool and a register_tools wait for the lock, with a tool
\* registered and an agent built before.
C27_Witness ==
    /\ \E c \in Coroutines : co[c].pc = "running"
    /\ \E c \in Coroutines :
         co[c].pc = "waiting" /\ co[c].call.name = "register_tool"
    /\ \E c \in Coroutines :
         co[c].pc = "waiting" /\ co[c].call.name = "register_tools"
    /\ tools # <<>>
    /\ agent.id > 1

(* The host's phase sequence *)

\* the load order lists pre-init plugins, then default ones, then
\* after-init ones
Grouped ==
    \A i, j \in 1..Len(load_order) :
      i < j => TimingRank(manifests[load_order[i]].timing)
                 <= TimingRank(manifests[load_order[j]].timing)

C31_UntilReload ==
    startup \in {"start", PRE_INIT, DEFAULT, AFTER_INIT} => Grouped

\* a reload has registered a default plugin behind an after-init one
C31_ReloadRegresses ==
    /\ startup = "reload"
    /\ Len(load_order) = MaxManifests
    /\ manifests[load_order[1]].timing = AFTER_INIT
    /\ manifests[load_order[MaxManifests]].timing = DEFAULT

(* EntityManager.update_entity *)

\* an update_entity call whose updates do not name the versions field, on
\* an entity the cache holds
UpdatesOtherField ==
    /\ Made("update_entity")
    /\ mgr_op'.args.value # "versions"
    /\ Unscoped(rows, mgr_op'.args.key).found

\* C32: update_entity with updates that do not name the versions field
\* leaves the version ids cached under the base URI as they were, also
\* when the URI carries a version.
C32_Step ==
    UpdatesOtherField =>
      CachedVersions(rows', mgr_op'.args.key) = CachedVersions(rows, mgr_op'.args.key)
C32_UpdateKeepsVersions == [][C32_Step]_vars

\* What holds of C32: the same for a URI without a version, and for a URI
\* with a version no version is added and the version of the URI stays when
\* the update was made.
C32_UnversionedStep ==
    UpdatesOtherField =>
      /\ mgr_op'.args.version = NoVersion =>
           CachedVersions(rows', mgr_op'.args.key) = CachedVersions(rows, mgr_op'.args.key)
      /\ mgr_op'.args.version # NoVersion /\ mgr_op'.calls = <<>> /\ mgr_op'.ret.found =>
           CachedVersions(rows', mgr_op'.args.key) = {mgr_op'.args.version}
C32_UnversionedKeepsVersions == [][C32_UnversionedStep]_vars

(* update_entity under interleaving *)

\* no update_entity call is in progress
NoUpdateInProgress == \A c \in Updaters : upd.co[c].pc = "idle"

\* C33: once the update_entity calls of the two coroutines have returned,
\* the cached entity has, in the field of each coroutine, the value that
\* coroutine's last call gave it: no update is lost.
C33_NoLostUpdate ==
    NoUpdateInProgress =>
      \A c \in Updaters :
         upd.co[c].value # "" => upd.cache[FieldOfUpdater(c)] = upd.co[c].value

\* What holds of C33: when a call returns normally, the cache has that
\* call's own value in its field.
C33_OwnStep ==
    \A c \in Updaters :
       upd'.co[c] # upd.co[c] /\ upd'.co[c].pc = "idle" /\ upd'.cache # upd.cache
         => upd'.cache[FieldOfUpdater(c)] = upd'.co[c].value
C33_OwnUpdateKept == [][C33_OwnStep]_vars

(* ProjectManager.get_project and the entity cache *)

\* the entity cache row of that base URI
EntityRow(table, base) == get(table, ENTITIES_CACHE, base)

\* C34: a get_project call, its entity prefetch included, leaves every
\* entity document the entity cache holds as it was.
C34_Step ==
    Made("get_project") =>
      \A base \in BaseUris :
         Truthy(EntityRow(rows, base)) => EntityRow(rows', base) = EntityRow(rows, base)
C34_PrefetchKeepsEntities == [][C34_Step]_vars

\* What holds of C34: a get_project that makes no prefetch call (a project
\* cache hit, no provider, a project the provider does not have) writes no
\* entity row, and a prefetch writes exactly the rows of the entities the
\* provider returned.
C34_WithoutPrefetchStep ==
    Made("get_project") /\ mgr_op'.calls # <<"fetch_project", "prefetch_entities_for_project">> =>
      \A base \in BaseUris : EntityRow(rows', base) = EntityRow(rows, base)
C34_WithoutPrefetch == [][C34_WithoutPrefetchStep]_vars

(* _load_plugin after initialize *)

\* the step in which `await plugin.initialize()` has returned normally:
\* the load went on to the tool scan
InitializeCompleted ==
    pc = "initialize" /\ pc' # "initialize" /\ last_error' # InitializeError

\* the instance whose initialize has just returned is the one registered
\* under its manifest's name, and the name is in the load order
RegisteredNow ==
    /\ to_load[idx].name \in DOMAIN plugins'
    /\ plugins'[to_load[idx].name].path = instance.path
    /\ Count(load_order', to_load[idx].name) = 1

\* C35: an instance whose initialize hook completed is recorded in the
\* registry and in the load order (shutdown_all goes through the load
\* order), whatever later step of its load fails.
C35_Step == InitializeCompleted => RegisteredNow
C35_InitializedIsRegistered == [][C35_Step]_vars

\* What holds of C35: the instance is registered when the tool scan that
\* follows its initialize raises nothing.
C35_UnlessScanStep ==
    InitializeCompleted /\ last_error' = NoError => RegisteredNow
C35_UnlessScanFails == [][C35_UnlessScanStep]_vars

\* an instance was initialized, its tool scan raised, and it is in no
\* registry: shutdown_all will not meet it
C35_InitializedAndDropped ==
    /\ pc = "loading"
    /\ last_error = DuplicateToolError
    /\ idx > 1 /\ outcome[idx - 1] = "failed"
    /\ to_load[idx - 1].name \notin DOMAIN plugins


\* the cache row of a secret
CacheKeyOf(id) == _make_cache_key(id.key, id.scope, id.project)

\* C36: the cache key is injective on (key, scope, project), whatever the
\* strings are: two different secrets never have the same cache row, and a
\* set_secret for one secret changes what get_secret returns from the cache
\* for no other secret.
C36_Step ==
    /\ \A a, b \in AnySecretIds : a # b => CacheKeyOf(a) # CacheKeyOf(b)
    /\ Made("set_secret") =>
         \A other \in AnySecretIds \ {CalledSecret(mgr_op')} :
           Stored(rows', other) = Stored(rows, other)
C36_CacheKeyInjective == [][C36_Step]_vars

\* It is so for keys and projects without ':' when a PROJECT secret names
\* its project.
C36_PlainStep ==
    /\ \A a, b \in SecretIds : a # b => CacheKeyOf(a) # CacheKeyOf(b)
    /\ Made("set_secret") =>
         \A other \in SecretIds \ {CalledSecret(mgr_op')} :
           Stored(rows', other) = Stored(rows, other)
C36_PlainKeysInjective == [][C36_PlainStep]_vars

\* set_secret("k", "b", PROJECT, "p:USER:") has been made and
\* get_secret("k:PROJECT:p", USER) finds "b" in the cache.
C36_OtherSecretRead ==
    /\ mgr_op.name = "set_secret"
    /\ CalledSecret(mgr_op) = SecretId("k", PROJECT, "p:USER:")
    /\ mgr_op.args.value = "b"
    /\ Stored(rows, SecretId("k:PROJECT:p", USER, NoProject)) = Returned("b", <<>>)



\* the names in self._load_order
LoadOrderNames == {load_order[i] : i \in 1..Len(load_order)}

\* C37: whatever load_plugins and shutdown_all calls were made, and whichever
\* loads failed, the registry, the manifest map and the load order hold the
\* same names, and the load order holds no name twice.
C37_RegistryConsistent ==
    /\ DOMAIN plugins = DOMAIN manifests
    /\ DOMAIN plugins = LoadOrderNames
    /\ \A n \in LoadOrderNames : Count(load_order, n) = 1

\* A second load_plugins call of a phase has ended: the plugin an earlier
\* call registered was skipped and the plugin that failed has failed again.
C37_Witness ==
    /\ LoadDone
    /\ load_order # <<>>
    /\ \E i, j \in 1..Len(to_load) :
         /\ outcome[i] = "skipped"
         /\ outcome[j] = "failed"
         /\ to_load[j].name \notin DOMAIN plugins


\* the names get_project returns a project for, whatever the provider says
Readable(table, has_provider) ==
    {name \in ProjectNames : ReadProject(table, name, has_provider).ret.found}

\* the names in the list a list_projects call returned
ListedNames(call) == {call.ret.projects[i].name : i \in 1..Len(call.ret.projects)}

\* C38: with or without a provider, every project get_project returns is in
\* the list list_projects returns: a list_projects call that returns lists
\* every name get_project returned a project for when it was made.
C38_Step ==
    Made("list_projects") /\ ~mgr_op'.raised =>
      Readable(rows, providers.project) \subseteq ListedNames(mgr_op')
C38_ReadsAreListed == [][C38_Step]_vars

\* It is so without a provider, and with one for the names the provider
\* lists.
C38_LocalStep ==
    Made("list_projects") /\ ~mgr_op'.raised =>
      /\ ~providers.project =>
           Readable(rows, providers.project) = ListedNames(mgr_op')
      /\ ListedNames(mgr_op') \subseteq Readable(rows', providers.project)
C38_ListedAreRead == [][C38_LocalStep]_vars

\* With a provider, proj1 was created locally, list_projects has returned
\* the provider's list without it, and get_project still returns it.
C38_ReadButNotListed ==
    /\ providers.project
    /\ mgr_op.name = "list_projects"
    /\ ~mgr_op.raised
    /\ "proj1" \notin ListedNames(mgr_op)
    /\ ReadProject(rows, "proj1", TRUE).ret = Returned(LocalPath, <<>>)



\* C39: every register_tool, register_tools and run_agent call eventually
\* takes the lock and returns, agent runs ending whenever they wait for
\* nothing: a coroutine inside one of the three calls, a register_tool its
\* tool function made from inside the agent run included, is eventually
\* outside them.
C39_LockProgress ==
    \A c \in Coroutines : (co[c].pc # "idle") ~> (co[c].pc = "idle")

\* It is so for the calls coroutines make from outside an agent run.
C39_WaitersProgress ==
    \A c \in Coroutines : (co[c].pc = "waiting") ~> (co[c].pc = "idle")

\* Coroutine c1 waits for the lock with a register_tool call, first in the
\* queue, and no coroutine is in an agent run that could end and release
\* the lock: nothing wakes it.
C39_WaitsForItself ==
    /\ co["c1"].pc = "waiting"
    /\ co["c1"].call.name = "register_tool"
    /\ Head(waiters) = "c1"
    /\ locked
    /\ \A c \in Coroutines : co[c].pc # "running"

====
